---- MODULE Spec2Model ----
(***************************************************************************)
(* A model of dsl_parser/parser.py: the blueprint compiler that lowers a   *)
(* combined DSL document into a deployment plan.                           *)
(*                                                                         *)
(* Strings that the code slices or prefix-matches (operation mappings,     *)
(* plugin names) are sequences of tokens; "." is a token of its own, so    *)
(* startswith(plugin_name + '.') and mapping[n + 1:] are computed on the   *)
(* sequence as the code computes them on the characters.                   *)
(***************************************************************************)
EXTENDS Integers, Sequences, FiniteSets, TLC

VARIABLES
    outputs,            \* the outputs of the plan: output name -> value
    registered,         \* the names under which function classes were registered
    runtime_properties, \* runtime_properties of the node instance of webserver
    evaluated_outputs,  \* what functions.evaluate_outputs returned
    alias_mapping,      \* resolver: the alias mapping, name -> name
    resources_base_url, \* resolver: resources_base_url, None, '' or a url
    logical_name,       \* resolver: the dsl location or the ref a caller resolves
    path_context,       \* resolver: the url of the document that holds the ref, or None
    local_files,        \* resolver: the names for which os.path.exists answers True
    open_urls,          \* resolver: the urls that urlopen opens
    resource_location,  \* resolver: what _get_resource_location returned
    node_properties,    \* the properties of the plan's nodes: node name -> property -> value
    plugins,            \* processed_plugins: plugin name -> plugin object
    resource_base,      \* resource_base of _parse ("" when there is no dsl_location)
    resources,          \* the resource names for which _resource_exists answers True
    operation_name,     \* binder call: the operation (or workflow) name
    operation_content,  \* binder call: the caller's operation entry (string or mapping)
    op_descriptor,      \* binder call: what the call returned or raised
    node_types,         \* combined_parsed_dsl[NODE_TYPES]
    relationships,      \* combined_parsed_dsl[RELATIONSHIPS]: the relationship types
    node_templates,     \* combined_parsed_dsl[NODE_TEMPLATES]; its relationship
                        \* objects are the ones the processed nodes list
    type_impls,         \* the pool of type implementations (a copy, consumed)
    relationship_impls, \* the pool of relationship implementations (a copy, consumed)
    top_level_relationships, \* the complete relationship types
    processed_nodes,    \* processed_nodes of _parse, in iteration order
    node_index,         \* how many nodes the running loop has handled
    workflows,          \* combined_parsed_dsl[WORKFLOWS]: name -> mapping entry
    processed_workflows, \* what _process_workflows returned: name -> op_struct
    workflow_plugins_to_install, \* the plan's workflow_plugins_to_install
    deployment_plugins_to_install, \* the plan's deployment_plugins_to_install
    documents,          \* what urlopen reads: url -> the yaml document there
    parsed_dsl,         \* the root document, as _load_yaml returned it
    dsl_location,       \* the url of the root document, or NoLocation
    ordered_imports_list,   \* _combine_imports: the import urls, in merge order
    import_index,       \* _combine_imports: position of the loop over the list
    combined_parsed_dsl,    \* the document the imports are folded into
    error,              \* the exception that ended the compile, if any
    pc                  \* position of the run

binder_vars == <<operation_name, operation_content, op_descriptor>>

plan_vars == <<node_types, relationships, top_level_relationships, node_templates, type_impls,
               relationship_impls, processed_nodes, node_index, error>>

workflow_vars == <<workflows, processed_workflows, workflow_plugins_to_install,
                   deployment_plugins_to_install>>

import_vars == <<documents, parsed_dsl, dsl_location, ordered_imports_list,
                 import_index, combined_parsed_dsl>>

function_vars == <<node_properties>>

resolver_vars == <<alias_mapping, resources_base_url, logical_name, path_context,
                   local_files, open_urls, resource_location>>

output_vars == <<outputs, registered, runtime_properties, evaluated_outputs>>

vars == <<plugins, resource_base, resources, binder_vars, plan_vars, workflow_vars,
          import_vars, function_vars, resolver_vars, output_vars, pc>>

-----------------------------------------------------------------------------
(* Bounds of the checked inputs *)

\* longest operation mapping, in tokens
MaxLen == 5

\* tokens operation mappings are made of
Alphabet == {"a", "."}

-----------------------------------------------------------------------------
(* Program constants *)

HOST_AGENT == "host_agent"
CENTRAL_DEPLOYMENT_AGENT == "central_deployment_agent"
SCRIPT_PLUGIN_NAME == <<"script">>
SCRIPT_PATH_PROPERTY == "script_path"
SCRIPT_PLUGIN_RUN_TASK == <<"script_runner", ".", "tasks", ".", "run">>
SCRIPT_PLUGIN_EXECUTE_WORKFLOW_TASK ==
    <<"script_runner", ".", "tasks", ".", "execute_workflow">>
WorkflowScriptDescription == <<"Workflow script executed by the script plugin">>

\* error codes the callers hand to the binder
NodeOperationErrorCode == 10
RelationshipOperationErrorCode == 19
WorkflowErrorCode == 21
ScriptPathDefinedErrorCode == 60
ScriptPluginMissingErrorCode == 61

-----------------------------------------------------------------------------
(* Strings and small helpers *)

EmptyStr == <<>>

StartsWith(s, prefix) ==
    /\ Len(prefix) <= Len(s)
    /\ SubSeq(s, 1, Len(prefix)) = prefix

\* s[n:] of Python, n counted from 0
Slice(s, n) == SubSeq(s, n + 1, Len(s))

\* all sequences over S of length at most n
RECURSIVE SeqsUpTo(_, _)
SeqsUpTo(S, n) ==
    IF n = 0 THEN {<<>>}
    ELSE LET shorter == SeqsUpTo(S, n - 1)
         IN  shorter \cup {Append(s, x) : s \in {t \in shorter : Len(t) = n - 1}, x \in S}

\* all orders in which the elements of the finite set S can be iterated
RECURSIVE Orders(_)
Orders(S) ==
    IF S = {} THEN {<<>>}
    ELSE UNION {{<<x>> \o rest : rest \in Orders(S \ {x})} : x \in S}

\* dict.update: the entries of overriding win
DictUpdate(dict, overriding) ==
    [k \in DOMAIN dict \cup DOMAIN overriding |->
        IF k \in DOMAIN overriding THEN overriding[k] ELSE dict[k]]

EmptyDict == <<>>

\* _get_dict_prop
GetDictProp(dictionary, prop_name) ==
    IF prop_name \in DOMAIN dictionary THEN dictionary[prop_name] ELSE EmptyDict

\* dict[key] = value
DictWith(dict, key, value) == DictUpdate(dict, [k \in {key} |-> value])

(* A property value is a scalar, or a mapping or list of scalars, given by its
   leaves in the order its iteration takes them *)

\* a string leaf
Str(s) == [kind |-> "str", args |-> <<s>>]

\* the raw form {name: args} of an intrinsic function
RawFunction(name, args) == [kind |-> name, args |-> args]

Scalar(leaf) == [is_container |-> FALSE, items |-> <<leaf>>]

ContainerOf(leaves) == [is_container |-> TRUE, items |-> leaves]

\* dsl_location is None
NoLocation == "None"

\* the compile started from a combined document: no document is read
\* None of Python
None == <<"None">>

\* no name is resolved
NoOutputs ==
    /\ outputs = <<>>
    /\ registered = {}
    /\ runtime_properties = <<>>
    /\ evaluated_outputs = <<>>

NoResolver ==
    /\ alias_mapping = EmptyDict
    /\ resources_base_url = None
    /\ logical_name = None
    /\ path_context = None
    /\ local_files = {}
    /\ open_urls = {}
    /\ resource_location = None

\* no node is processed yet
NoFunctions == node_properties = EmptyDict

NoImports ==
    /\ documents = EmptyDict
    /\ parsed_dsl = EmptyDict
    /\ dsl_location = NoLocation
    /\ ordered_imports_list = <<>>
    /\ import_index = 0
    /\ combined_parsed_dsl = EmptyDict

-----------------------------------------------------------------------------
(* Plugin binder: _extract_plugin_name_and_operation_mapping_from_operation *)

\* a payload: None, or a dict of entries
NonePayload == [none |-> TRUE, entries |-> EmptyDict]
DictPayload(entries) == [none |-> FALSE, entries |-> entries]

\* OpDescriptor.plugin of the stub: the empty string
NoPlugin == [name |-> EmptyStr, executor |-> ""]

PayloadFieldName(is_workflows) == IF is_workflows THEN "parameters" ELSE "inputs"

MappingFieldName(is_workflows) == IF is_workflows THEN "mapping" ELSE "implementation"

\* operation_mapping as lines 704-709 read it from the content
ContentMapping(content) ==
    IF content.is_str THEN content.mapping
    ELSE IF content.has_mapping THEN content.mapping ELSE EmptyStr

\* operation_payload as lines 703-711 read it from the content
ContentPayload(content) ==
    IF content.is_str THEN NonePayload
    ELSE IF content.has_payload THEN DictPayload(content.payload)
         ELSE DictPayload(EmptyDict)

\* _operation_struct: the payload field is set only when the payload is not None
OperationStruct(plugin_name, operation_mapping, operation_properties, properties_field_name) ==
    [plugin |-> plugin_name,
     operation |-> operation_mapping,
     properties_field_name |-> properties_field_name,
     has_properties |-> ~operation_properties.none,
     properties |-> operation_properties.entries]

\* a returned OpDescriptor
Returned(name, plugin, op_struct) ==
    [kind |-> "returned", code |-> 0, name |-> name, plugin |-> plugin,
     op_struct |-> op_struct]

\* a raised DSLParsingLogicException
Raised(code) ==
    [kind |-> "raised", code |-> code, name |-> EmptyStr, plugin |-> NoPlugin,
     op_struct |-> OperationStruct(EmptyStr, EmptyStr, NonePayload, "")]

\* the test of line 727
IsLongerPrefix(plugin_name_length, longest_prefix) ==
    plugin_name_length > longest_prefix

\* the loop of lines 722-729 over plugin_names[i..]
RECURSIVE LongestPrefixLoop(_, _, _, _)
LongestPrefixLoop(plugin_names, i, operation_mapping, acc) ==
    IF i > Len(plugin_names) THEN acc
    ELSE LET plugin_name == plugin_names[i]
             hit == /\ StartsWith(operation_mapping, plugin_name \o <<".">>)
                    /\ IsLongerPrefix(Len(plugin_name), acc.longest_prefix)
         IN  LongestPrefixLoop(plugin_names, i + 1, operation_mapping,
                 IF hit
                 THEN [longest_prefix |-> Len(plugin_name),
                       found |-> TRUE,
                       longest_prefix_plugin_name |-> plugin_name]
                 ELSE acc)

LongestPrefix(plugin_names, operation_mapping) ==
    LongestPrefixLoop(plugin_names, 1, operation_mapping,
        [longest_prefix |-> 0, found |-> FALSE,
         longest_prefix_plugin_name |-> EmptyStr])

\* _resource_exists: the URL probe of resource_base/resource_name
ResourceExists(existing, base, resource_name) == resource_name \in existing

\* the update done on the caller's own payload object, as it is without the
\* deepcopy of line 741 ("payload or {}" still makes a new dict for an empty one)
UpdateAliasedPayload(operation_payload, entry) ==
    LET updated == DictPayload(DictUpdate(operation_payload.entries, entry))
    IN  [op |-> updated,
         caller |-> IF operation_payload.none \/ operation_payload.entries = EmptyDict
                    THEN operation_payload ELSE updated]

\* line 741 and the update of lines 752-763: the binder's own payload object
\* (op) and the caller's payload object (caller) after the update
UpdateCopiedPayload(operation_payload, entry) ==
    [op |-> DictPayload(DictUpdate(operation_payload.entries, entry)),
     caller |-> operation_payload]

\* the script_path entry of lines 752-763
ScriptPathEntry(script_path, is_workflows) ==
    IF is_workflows
    THEN [k \in {SCRIPT_PATH_PROPERTY} |->
             [default |-> script_path, description |-> WorkflowScriptDescription]]
    ELSE [k \in {SCRIPT_PATH_PROPERTY} |-> script_path]

\* the content the caller holds, with its payload object as the call left it
ContentAfter(content, caller_payload) ==
    IF content.is_str \/ ~content.has_payload THEN content
    ELSE [content EXCEPT !.payload = caller_payload.entries]

\* the script-plugin branch with the check of line 764 moved before that of
\* line 742
ScriptPluginBranchPluginFirst(plugins_, operation_name_, operation_content_, operation_mapping, operation_payload, is_workflows) ==
    LET payload_field_name == PayloadFieldName(is_workflows)
        updated == UpdateCopiedPayload(operation_payload,
                       ScriptPathEntry(operation_mapping, is_workflows))
        new_mapping == IF is_workflows THEN SCRIPT_PLUGIN_EXECUTE_WORKFLOW_TASK
                       ELSE SCRIPT_PLUGIN_RUN_TASK
    IN  IF SCRIPT_PLUGIN_NAME \notin DOMAIN plugins_
        THEN [result |-> Raised(ScriptPluginMissingErrorCode),
              content |-> operation_content_]
        ELSE IF SCRIPT_PATH_PROPERTY \in DOMAIN operation_payload.entries
        THEN [result |-> Raised(ScriptPathDefinedErrorCode),
              content |-> operation_content_]
        ELSE [result |-> Returned(operation_name_, plugins_[SCRIPT_PLUGIN_NAME],
                             OperationStruct(SCRIPT_PLUGIN_NAME, new_mapping,
                                             updated.op, payload_field_name)),
              content |-> operation_content_]

\* the script-plugin branch, lines 740-779
ScriptPluginBranch(plugins_, operation_name_, operation_content_, operation_mapping, operation_payload, is_workflows) ==
    LET payload_field_name == PayloadFieldName(is_workflows)
        copied == UpdateCopiedPayload(operation_payload, EmptyDict)
        updated == UpdateCopiedPayload(operation_payload,
                       ScriptPathEntry(operation_mapping, is_workflows))
        new_mapping == IF is_workflows THEN SCRIPT_PLUGIN_EXECUTE_WORKFLOW_TASK
                       ELSE SCRIPT_PLUGIN_RUN_TASK
    IN  IF SCRIPT_PATH_PROPERTY \in DOMAIN copied.op.entries
        THEN [result |-> Raised(ScriptPathDefinedErrorCode),
              content |-> ContentAfter(operation_content_, copied.caller)]
        ELSE IF SCRIPT_PLUGIN_NAME \notin DOMAIN plugins_
        THEN [result |-> Raised(ScriptPluginMissingErrorCode),
              content |-> ContentAfter(operation_content_, updated.caller)]
        ELSE [result |-> Returned(operation_name_, plugins_[SCRIPT_PLUGIN_NAME],
                             OperationStruct(SCRIPT_PLUGIN_NAME, new_mapping,
                                             updated.op, payload_field_name)),
              content |-> ContentAfter(operation_content_, updated.caller)]

\* the whole function: what it returns or raises (result) and the caller's
\* operation entry after the call (content)
ExtractPluginNameAndOperationMapping(plugins_, plugin_names, operation_name_, operation_content_, error_code, resource_base_, existing, is_workflows) ==
    LET payload_field_name == PayloadFieldName(is_workflows)
        operation_mapping == ContentMapping(operation_content_)
        operation_payload == ContentPayload(operation_content_)
        scan == LongestPrefix(plugin_names, operation_mapping)
    IN  IF operation_mapping = EmptyStr
        THEN [result |-> Returned(operation_name_, NoPlugin,
                             OperationStruct(EmptyStr, EmptyStr,
                                             DictPayload(EmptyDict),
                                             payload_field_name)),
              content |-> operation_content_]
        ELSE IF scan.found
        THEN [result |-> Returned(operation_name_,
                             plugins_[scan.longest_prefix_plugin_name],
                             OperationStruct(scan.longest_prefix_plugin_name,
                                 Slice(operation_mapping, scan.longest_prefix + 1),
                                 operation_payload, payload_field_name)),
              content |-> operation_content_]
        ELSE IF resource_base_ # "" /\ ResourceExists(existing, resource_base_,
                                                      operation_mapping)
        THEN ScriptPluginBranch(plugins_, operation_name_, operation_content_,
                                operation_mapping, operation_payload, is_workflows)
        ELSE [result |-> Raised(error_code), content |-> operation_content_]

-----------------------------------------------------------------------------
(* The binder called on one operation entry by each of its callers *)

\* plugin names a blueprint of the binder runs may declare
BinderPluginNames == {EmptyStr, <<"a">>, <<"a", ".", "a">>, SCRIPT_PLUGIN_NAME}

Mappings == SeqsUpTo(Alphabet, MaxLen)

PayloadKeys == {SCRIPT_PATH_PROPERTY, "other"}

Payloads == UNION {[keys -> {<<"v">>}] : keys \in SUBSET PayloadKeys}

\* an operation entry: a string, or a mapping with optional fields
OperationContents ==
    {[is_str |-> TRUE, has_mapping |-> TRUE, mapping |-> m,
      has_payload |-> FALSE, payload |-> EmptyDict] : m \in Mappings}
    \cup
    {[is_str |-> FALSE, has_mapping |-> TRUE, mapping |-> m,
      has_payload |-> TRUE, payload |-> p] : m \in Mappings, p \in Payloads}

NotCalled == Raised(0)

\* no exception has ended the compile
NoError == [type |-> "", code |-> 0]

ProcessedPlugin(name, executor) == [name |-> name, executor |-> executor]

InitBinder ==
    /\ \E declared \in SUBSET BinderPluginNames :
           plugins = [n \in declared |-> ProcessedPlugin(n, HOST_AGENT)]
    /\ resource_base \in {"", "file:/blueprint"}
    /\ operation_content \in OperationContents
    /\ resources \in SUBSET {ContentMapping(operation_content)}
    /\ operation_name = <<"start">>
    /\ op_descriptor = NotCalled
    /\ pc = "bind"
    /\ NoImports
    /\ NoResolver
    /\ NoOutputs
    /\ NoFunctions
    /\ node_types = EmptyDict
    /\ relationships = EmptyDict
    /\ node_templates = EmptyDict
    /\ top_level_relationships = EmptyDict
    /\ type_impls = EmptyDict
    /\ relationship_impls = EmptyDict
    /\ processed_nodes = <<>>
    /\ node_index = 0
    /\ error = NoError
    /\ workflows = EmptyDict
    /\ processed_workflows = EmptyDict
    /\ workflow_plugins_to_install = <<>>
    /\ deployment_plugins_to_install = <<>>

\* one call of the binder, with the arguments a caller passes
CallBinder(error_code, is_workflows) ==
    /\ pc = "bind"
    /\ \E plugin_names \in Orders(DOMAIN plugins) :
          LET call == ExtractPluginNameAndOperationMapping(
                          plugins, plugin_names, operation_name,
                          operation_content, error_code, resource_base,
                          resources, is_workflows)
          IN  /\ op_descriptor' = call.result
              /\ operation_content' = call.content
    /\ pc' = IF is_workflows THEN "workflow_bound"
             ELSE IF error_code = NodeOperationErrorCode THEN "node_operation_bound"
             ELSE "relationship_operation_bound"
    /\ UNCHANGED <<output_vars, resolver_vars, function_vars, import_vars, plugins, resource_base, resources, operation_name, plan_vars,
                   workflow_vars>>

\* _process_node -> _process_context_operations -> ..._from_interface
BindNodeOperation == CallBinder(NodeOperationErrorCode, FALSE)

\* _process_node_relationships_operations and _validate_relationship_fields
BindRelationshipOperation == CallBinder(RelationshipOperationErrorCode, FALSE)

\* _process_workflows
BindWorkflow == CallBinder(WorkflowErrorCode, TRUE)

NextBinder ==
    \/ BindNodeOperation
    \/ BindRelationshipOperation
    \/ BindWorkflow

SpecBinder == InitBinder /\ [][NextBinder]_vars

-----------------------------------------------------------------------------
(* Types, derivation and implementations *)

HOST_TYPE == "cloudify.types.host"
DEPENDS_ON_REL_TYPE == "cloudify.relationships.depends_on"
CONTAINED_IN_REL_TYPE == "cloudify.relationships.contained_in"
CONNECTED_TO_REL_TYPE == "cloudify.relationships.connected_to"

UnknownNodeTypeErrorCode == 7
SelfTargetErrorCode == 23
HostAgentWithoutHostErrorCode == 24
UndefinedTargetErrorCode == 25
UndefinedRelationshipTypeErrorCode == 26
AmbiguousTypeImplErrorCode == 103
TypeImplNotDerivedErrorCode == 102
AmbiguousRelationshipImplErrorCode == 108
RelationshipImplNotDerivedErrorCode == 109
UnusedTypeImplErrorCode == 110
UnusedRelationshipImplErrorCode == 111
ManyContainedInErrorCode == 112

LogicError(code) == [type |-> "DSLParsingLogicException", code |-> code]

\* Python's "maximum recursion depth exceeded"
RecursionError == [type |-> "RuntimeError", code |-> 0]

\* a lookup of a key a dict does not hold
KeyError == [type |-> "KeyError", code |-> 0]

\* _validate_type_impls: the exception with its payload
UnusedTypeImplError(impl_name, node_ref) ==
    [type |-> "DSLParsingLogicException", code |-> UnusedTypeImplErrorCode,
     implementation |-> impl_name, node_ref |-> node_ref]

\* _validate_relationship_impls: the exception with its payload
UnusedRelationshipImplError(impl_name, source_node_ref) ==
    [type |-> "DSLParsingLogicException", code |-> UnusedRelationshipImplErrorCode,
     implementation |-> impl_name, source_node_ref |-> source_node_ref]

\* _is_derived_from looks up types[type_name] for a name types does not hold
RECURSIVE DerivationLookupFails(_, _, _)
DerivationLookupFails(type_name, types, derived_from) ==
    IF type_name = derived_from THEN FALSE
    ELSE IF type_name \notin DOMAIN types THEN TRUE
    ELSE IF types[type_name].has_derived_from
         THEN DerivationLookupFails(types[type_name].derived_from, types, derived_from)
         ELSE FALSE

\* _is_derived_from
RECURSIVE IsDerivedFrom(_, _, _)
IsDerivedFrom(type_name, types, derived_from) ==
    IF type_name = derived_from THEN TRUE
    ELSE IF types[type_name].has_derived_from
         THEN IsDerivedFrom(types[type_name].derived_from, types, derived_from)
         ELSE FALSE

\* how a call of _is_derived_from ends: with its result, with the KeyError of
\* types[type_name] for a name types does not hold, or never, when the
\* derived_from chain comes back to a type the recursion is in (the interpreter
\* ends it with a RuntimeError)
RECURSIVE IsDerivedFromOutcome(_, _, _, _)
IsDerivedFromOutcome(type_name, types, derived_from, visited) ==
    IF type_name = derived_from THEN "True"
    ELSE IF type_name \notin DOMAIN types THEN "KeyError"
    ELSE IF ~types[type_name].has_derived_from THEN "False"
    ELSE IF type_name \in visited THEN "RuntimeError"
    ELSE IsDerivedFromOutcome(types[type_name].derived_from, types, derived_from,
                              visited \cup {type_name})

\* the types for which _build_family_descendants_set does not get a result
FamilyDescendantsFailures(types_dict, derived_from) ==
    {type_name \in DOMAIN types_dict :
        IsDerivedFromOutcome(type_name, types_dict, derived_from, {})
            \in {"KeyError", "RuntimeError"}}

\* _build_family_descendants_set
BuildFamilyDescendantsSet(types_dict, derived_from) ==
    {type_name \in DOMAIN types_dict : IsDerivedFrom(type_name, types_dict, derived_from)}

\* _create_type_hierarchy with the type itself put first
RECURSIVE CreateTypeHierarchySelfFirst(_, _)
CreateTypeHierarchySelfFirst(type_name, types) ==
    IF types[type_name].has_derived_from
    THEN <<type_name>> \o CreateTypeHierarchySelfFirst(types[type_name].derived_from, types)
    ELSE <<type_name>>

\* _create_type_hierarchy
RECURSIVE CreateTypeHierarchy(_, _)
CreateTypeHierarchy(type_name, types) ==
    IF types[type_name].has_derived_from
    THEN Append(CreateTypeHierarchy(types[type_name].derived_from, types), type_name)
    ELSE <<type_name>>

\* some order in which a dict or set is iterated
AnyOrder(S) == CHOOSE order \in Orders(S) : TRUE

\* _get_implementation, with candidates the names candidate_func accepts:
\* what it returns or raises, and the pool after it
GetImplementation(type_name, implementations, candidates, types, err_code_ambig, err_code_derive) ==
    IF Cardinality(candidates) > 1
    THEN [raised |-> TRUE, error |-> LogicError(err_code_ambig), found |-> FALSE,
          impl_type |-> "", implementations |-> implementations]
    ELSE IF candidates = {}
    THEN [raised |-> FALSE, error |-> NoError, found |-> FALSE,
          impl_type |-> "", implementations |-> implementations]
    ELSE LET impl_name == CHOOSE c \in candidates : TRUE
             impl_type == implementations[impl_name].type
         IN  IF DerivationLookupFails(impl_type, types, type_name)
             THEN [raised |-> TRUE, error |-> KeyError,
                   found |-> FALSE, impl_type |-> "",
                   implementations |-> implementations]
             ELSE IF ~IsDerivedFrom(impl_type, types, type_name)
             THEN [raised |-> TRUE, error |-> LogicError(err_code_derive),
                   found |-> FALSE, impl_type |-> "",
                   implementations |-> implementations]
             ELSE [raised |-> FALSE, error |-> NoError, found |-> TRUE,
                   impl_type |-> impl_type,
                   implementations |->
                       [n \in DOMAIN implementations \ {impl_name} |-> implementations[n]]]

\* lines 1012-1015 and 1040-1043: the declared type when nothing was found
ImplementationOrDeclared(got, declared_type) ==
    [got EXCEPT !.impl_type = IF got.found THEN got.impl_type ELSE declared_type]

\* _get_type_implementation_if_exists
GetTypeImplementationIfExists(node_name, node_type_name, type_implementations, types) ==
    ImplementationOrDeclared(
        GetImplementation(node_type_name, type_implementations,
            {n \in DOMAIN type_implementations :
                type_implementations[n].node_ref = node_name},
            types, AmbiguousTypeImplErrorCode, TypeImplNotDerivedErrorCode),
        node_type_name)

\* _get_relationship_implementation_if_exists
GetRelationshipImplementationIfExists(source_node_name, target_node_name, relationship_impls_, relationship_type, relationships_) ==
    IF \E n \in DOMAIN relationship_impls_ :
          /\ relationship_impls_[n].source_node_ref = source_node_name
          /\ relationship_impls_[n].target_node_ref = target_node_name
          /\ DerivationLookupFails(relationship_impls_[n].type, relationships_,
                                   relationship_type)
    THEN [raised |-> TRUE, error |-> KeyError, found |-> FALSE,
          impl_type |-> relationship_type, implementations |-> relationship_impls_]
    ELSE
    ImplementationOrDeclared(
        GetImplementation(relationship_type, relationship_impls_,
            {n \in DOMAIN relationship_impls_ :
                /\ relationship_impls_[n].source_node_ref = source_node_name
                /\ relationship_impls_[n].target_node_ref = target_node_name
                /\ IsDerivedFrom(relationship_impls_[n].type, relationships_,
                                 relationship_type)},
            relationships_, AmbiguousRelationshipImplErrorCode,
            RelationshipImplNotDerivedErrorCode),
        relationship_type)

-----------------------------------------------------------------------------
(* Interfaces and operations *)

\* the interface merge rule: the keys of both, the overriding operation wins
MergeInterfaces(overridden, overriding) ==
    [i \in DOMAIN overridden \cup DOMAIN overriding |->
        IF i \in DOMAIN overridden /\ i \in DOMAIN overriding
        THEN DictUpdate(overridden[i], overriding[i])
        ELSE IF i \in DOMAIN overriding THEN overriding[i] ELSE overridden[i]]

\* the operations of one interface, as (interface, operation, content) items
OperationsOf(interfaces, interface_name) ==
    {[interface_name |-> interface_name, operation_name |-> o,
      operation_content |-> interfaces[interface_name][o]] :
        o \in DOMAIN interfaces[interface_name]}

\* the items of the interfaces taken in interface_order
RECURSIVE ItemsInOrder(_, _)
ItemsInOrder(interfaces, interface_order) ==
    IF interface_order = <<>> THEN {<<>>}
    ELSE {first \o rest :
             first \in Orders(OperationsOf(interfaces, Head(interface_order))),
             rest \in ItemsInOrder(interfaces, Tail(interface_order))}

\* every order in which interfaces.items() and interface.items() can iterate
IterationOrders(interfaces) ==
    UNION {ItemsInOrder(interfaces, interface_order) :
              interface_order \in Orders(DOMAIN interfaces)}

\* the order in which one run iterates interfaces.items() and interface.items()
SomeIterationOrder(interfaces) == CHOOSE items \in IterationOrders(interfaces) : TRUE

\* an entry of the operations dict: an op_struct, or None
OpEntry(op_struct) == [is_none |-> FALSE, op_struct |-> op_struct]
NoneEntry == [is_none |-> TRUE, op_struct |-> OperationStruct(EmptyStr, EmptyStr, NonePayload, "")]

\* lines 408-422 of _process_context_operations for one op_descriptor
RecordOperation(operations, interface_name, descriptor) ==
    LET short == IF descriptor.name \in DOMAIN operations
                 THEN DictUpdate(operations,
                          [k \in {descriptor.name} |-> NoneEntry])
                 ELSE DictUpdate(operations,
                          [k \in {descriptor.name} |-> OpEntry(descriptor.op_struct)])
    IN  DictUpdate(short,
            [k \in {interface_name \o <<".">> \o descriptor.name} |->
                OpEntry(descriptor.op_struct)])

\* lines 408-422 for one op_descriptor, or the exception the binder raised
RecordDescriptor(acc, interface_name, descriptor) ==
    IF descriptor.kind = "raised"
    THEN [acc EXCEPT !.raised = TRUE, !.error = LogicError(descriptor.code)]
    ELSE [acc EXCEPT
             !.node_plugins =
                 IF descriptor.plugin # NoPlugin
                 THEN DictUpdate(@, [k \in {descriptor.op_struct.plugin}
                                        |-> descriptor.plugin])
                 ELSE @,
             !.operations = RecordOperation(@, interface_name, descriptor)]

\* the loops of _process_context_operations over items[i..]: the exception
\* raised if any, the operations dict and the plugins dict of the node
RECURSIVE ContextOperationsLoop(_, _, _, _, _, _, _, _)
ContextOperationsLoop(items, i, plugins_, plugin_names, error_code, resource_base_, existing, acc) ==
    IF i > Len(items) \/ acc.raised THEN acc
    ELSE ContextOperationsLoop(items, i + 1, plugins_, plugin_names, error_code,
             resource_base_, existing,
             RecordDescriptor(acc, items[i].interface_name,
                 ExtractPluginNameAndOperationMapping(
                     plugins_, plugin_names, items[i].operation_name,
                     items[i].operation_content, error_code, resource_base_,
                     existing, FALSE).result))

\* line 424: the operations that are not None are returned
NotNoneOperations(done) ==
    [done EXCEPT !.operations =
        [name \in {n \in DOMAIN done.operations : ~done.operations[n].is_none}
            |-> done.operations[name].op_struct]]

\* _process_context_operations
ProcessContextOperations(items, plugins_, plugin_names, node_plugins, error_code, resource_base_, existing) ==
    NotNoneOperations(
        ContextOperationsLoop(items, 1, plugins_, plugin_names, error_code,
            resource_base_, existing,
            [raised |-> FALSE, error |-> NoError,
             node_plugins |-> node_plugins, operations |-> EmptyDict]))

-----------------------------------------------------------------------------
(* Top-level relationship types: _process_relationships *)

NodeType(has_derived_from, derived_from) ==
    [has_derived_from |-> has_derived_from, derived_from |-> derived_from,
     interfaces |-> EmptyDict]

RelationshipType(has_derived_from, derived_from) ==
    [has_derived_from |-> has_derived_from, derived_from |-> derived_from,
     source_interfaces |-> EmptyDict, target_interfaces |-> EmptyDict]

\* extract_complete_relationship_type: the type with what it inherits
RECURSIVE ExtractCompleteRelationshipType(_, _)
ExtractCompleteRelationshipType(relationship_types, relationship_type_name) ==
    LET relationship_type == relationship_types[relationship_type_name]
    IN  IF ~relationship_type.has_derived_from THEN relationship_type
        ELSE LET parent == ExtractCompleteRelationshipType(
                               relationship_types, relationship_type.derived_from)
             IN  [relationship_type EXCEPT
                     !.source_interfaces = MergeInterfaces(parent.source_interfaces, @),
                     !.target_interfaces = MergeInterfaces(parent.target_interfaces, @)]

\* extract_complete_node_type: the type with what it inherits
RECURSIVE ExtractCompleteNodeType(_, _)
ExtractCompleteNodeType(node_types_, node_type_name) ==
    LET node_type == node_types_[node_type_name]
    IN  IF ~node_type.has_derived_from THEN node_type
        ELSE LET parent == ExtractCompleteNodeType(node_types_, node_type.derived_from)
             IN  [node_type EXCEPT !.interfaces = MergeInterfaces(parent.interfaces, @)]

\* the operations _validate_relationship_fields binds, for every type in order
RECURSIVE RelationshipTypeItems(_, _)
RelationshipTypeItems(relationship_types, type_order) ==
    IF type_order = <<>> THEN <<>>
    ELSE LET relationship_type == relationship_types[Head(type_order)]
         IN  SomeIterationOrder(relationship_type.source_interfaces)
             \o SomeIterationOrder(relationship_type.target_interfaces)
             \o RelationshipTypeItems(relationship_types, Tail(type_order))

-----------------------------------------------------------------------------
(* Node templates: _process_node and _process_node_relationships *)

\* a relationship instance as the template declares it
RelationshipInstance(type, target, source_interfaces, target_interfaces) ==
    [type |-> type, target |-> target, target_id |-> "", state |-> "",
     base |-> "", type_hierarchy |-> <<>>,
     source_interfaces |-> source_interfaces,
     target_interfaces |-> target_interfaces,
     source_operations |-> EmptyDict, target_operations |-> EmptyDict]

NodeTemplate(type, interfaces, relationships_) ==
    [type |-> type, interfaces |-> interfaces, relationships |-> relationships_]

\* the checks of lines 902-918 with the type checked first
RelationshipInstanceErrorCodeTypeFirst(target, relationship_type, node_name, node_names_set, top_level_relationships_) ==
    IF relationship_type \notin DOMAIN top_level_relationships_
    THEN UndefinedRelationshipTypeErrorCode
    ELSE IF target \notin node_names_set THEN UndefinedTargetErrorCode
    ELSE IF target = node_name THEN SelfTargetErrorCode
    ELSE 0

\* the checks of lines 902-918, in their order: the code raised, or 0
RelationshipInstanceErrorCode(target, relationship_type, node_name, node_names_set, top_level_relationships_) ==
    IF target \notin node_names_set THEN UndefinedTargetErrorCode
    ELSE IF target = node_name THEN SelfTargetErrorCode
    ELSE IF relationship_type \notin DOMAIN top_level_relationships_
         THEN UndefinedRelationshipTypeErrorCode
    ELSE 0

\* lines 896-951 for the relationship object at position i, given what the
\* implementation lookup returned: the exception raised if any, the objects
\* as the iteration left them and the pool of relationship implementations
ExamineRelationship(acc, i, node_name, node_names_set, top_level_relationships_, got) ==
    IF got.raised
    THEN [acc EXCEPT !.raised = TRUE, !.error = got.error]
    ELSE IF RelationshipInstanceErrorCode(
                acc.relationships[i].target, got.impl_type, node_name,
                node_names_set, top_level_relationships_) # 0
    THEN [raised |-> TRUE,
          error |-> LogicError(RelationshipInstanceErrorCode(
                        acc.relationships[i].target, got.impl_type, node_name,
                        node_names_set, top_level_relationships_)),
          relationships |-> [acc.relationships EXCEPT ![i].type = got.impl_type],
          relationship_impls |-> got.implementations]
    ELSE [raised |-> FALSE, error |-> NoError,
          relationships |->
              [acc.relationships EXCEPT
                  ![i].type = got.impl_type,
                  ![i].source_interfaces =
                      MergeInterfaces(
                          top_level_relationships_[got.impl_type].source_interfaces, @),
                  ![i].target_interfaces =
                      MergeInterfaces(
                          top_level_relationships_[got.impl_type].target_interfaces, @),
                  ![i].target_id = acc.relationships[i].target,
                  ![i].target = "",
                  ![i].state = "reachable"],
          relationship_impls |-> got.implementations]

\* the loop of _process_node_relationships over the relationship objects
\* acc.relationships[i..]
RECURSIVE NodeRelationshipsLoop(_, _, _, _, _)
NodeRelationshipsLoop(acc, i, node_name, node_names_set, top_level_relationships_) ==
    IF i > Len(acc.relationships) \/ acc.raised THEN acc
    ELSE NodeRelationshipsLoop(
             ExamineRelationship(acc, i, node_name, node_names_set,
                 top_level_relationships_,
                 GetRelationshipImplementationIfExists(
                     node_name, acc.relationships[i].target,
                     acc.relationship_impls, acc.relationships[i].type,
                     top_level_relationships_)),
             i + 1, node_name, node_names_set, top_level_relationships_)

\* _process_node_relationships
ProcessNodeRelationships(rels, node_name, node_names_set, top_level_relationships_, impls) ==
    NodeRelationshipsLoop(
        [raised |-> FALSE, error |-> NoError, relationships |-> rels,
         relationship_impls |-> impls],
        1, node_name, node_names_set, top_level_relationships_)

\* merge_node_type_and_node_template_interfaces on the complete type
CompleteNodeInterfaces(node_types_, node_type_name, node) ==
    MergeInterfaces(ExtractCompleteNodeType(node_types_, node_type_name).interfaces,
                    node.interfaces)

\* a processed node
ProcessedNode(node_name, declared_type, type, node_plugins, operations) ==
    [name |-> node_name, id |-> node_name, declared_type |-> declared_type,
     type |-> type, plugins |-> node_plugins, operations |-> operations,
     instances |-> [deploy |-> 1], type_hierarchy |-> <<>>,
     has_host_id |-> FALSE, host_id |-> "",
     has_plugins_to_install |-> FALSE, plugins_to_install |-> <<>>,
     has_deployment_plugins_to_install |-> FALSE,
     deployment_plugins_to_install |-> <<>>]

NotProcessed == ProcessedNode("", "", "", EmptyDict, EmptyDict)

\* _process_node left by an exception
NodeFailed(err, rels, timpls, rimpls) ==
    [raised |-> TRUE, error |-> err, processed_node |-> NotProcessed,
     relationships |-> rels, type_impls |-> timpls, relationship_impls |-> rimpls]

\* lines 1099-1109, given the operations and what _process_node_relationships
\* did
NodeWithRelationships(node_name, node, impl, ops, rels) ==
    IF rels.raised
    THEN NodeFailed(rels.error, rels.relationships, impl.implementations,
                    rels.relationship_impls)
    ELSE [raised |-> FALSE, error |-> NoError,
          processed_node |->
              ProcessedNode(node_name, node.type, impl.impl_type,
                            ops.node_plugins, ops.operations),
          relationships |-> rels.relationships,
          type_impls |-> impl.implementations,
          relationship_impls |-> rels.relationship_impls]

\* lines 1097-1109, given what _process_context_operations returned
NodeWithOperations(node_name, node, top_level_relationships_, node_names_set, relationship_impls_, impl, ops) ==
    IF ops.raised
    THEN NodeFailed(ops.error, node.relationships, impl.implementations,
                    relationship_impls_)
    ELSE NodeWithRelationships(node_name, node, impl, ops,
             ProcessNodeRelationships(node.relationships, node_name, node_names_set,
                 top_level_relationships_, relationship_impls_))

PROPERTIES == "properties"

\* extract_complete_node_type, the properties: utils.merge_sub_dicts adds the
\* keys of the parent that the child does not override
RECURSIVE CompleteNodeTypeProperties(_, _)
CompleteNodeTypeProperties(node_types_, node_type_name) ==
    LET node_type == node_types_[node_type_name]
    IN  IF ~node_type.has_derived_from THEN GetDictProp(node_type, PROPERTIES)
        ELSE DictUpdate(CompleteNodeTypeProperties(node_types_, node_type.derived_from),
                        GetDictProp(node_type, PROPERTIES))

\* an entry of a properties schema: with a default, or mandatory
WithDefault(value) == [has_default |-> TRUE, default |-> value]

Mandatory == [has_default |-> FALSE, default |-> Scalar(Str(""))]

\* the errors of merge_schema_and_instance_properties, by the messages of lines
\* 1184-1190 (the codes are set in utils)
PropertyError(message) ==
    [type |-> "DSLParsingLogicException", code |-> 0, message |-> message]

\* merge_schema_and_instance_properties: the values of the template over those
\* of the implementation over the defaults of the schema
MergeSchemaAndInstanceProperties(instance_properties, impl_properties, schema_properties) ==
    IF (DOMAIN instance_properties \cup DOMAIN impl_properties)
           \ DOMAIN schema_properties # {}
    THEN [raised |-> TRUE, properties |-> EmptyDict,
          error |-> PropertyError("property is not part of the derived type properties schema")]
    ELSE IF \E k \in DOMAIN schema_properties :
               /\ ~schema_properties[k].has_default
               /\ k \notin DOMAIN instance_properties \cup DOMAIN impl_properties
    THEN [raised |-> TRUE, properties |-> EmptyDict,
          error |-> PropertyError("does not provide a value for mandatory property")]
    ELSE [raised |-> FALSE, error |-> NoError,
          properties |->
              [k \in DOMAIN schema_properties |->
                  IF k \in DOMAIN instance_properties THEN instance_properties[k]
                  ELSE IF k \in DOMAIN impl_properties THEN impl_properties[k]
                  ELSE schema_properties[k].default]]

\* line 1015: the properties of the implementation that was found
ImplProperties(node_name, type_impls_, impl) ==
    IF ~impl.found THEN EmptyDict
    ELSE GetDictProp(type_impls_[CHOOSE n \in DOMAIN type_impls_ :
                                    type_impls_[n].node_ref = node_name],
                     PROPERTIES)

\* lines 1079-1084: the properties of _extract_complete_node, of the type the
\* implementation lookup returned
ExtractCompleteNodeProperties(node_name, node, node_types_, type_impls_, impl) ==
    MergeSchemaAndInstanceProperties(
        GetDictProp(node, PROPERTIES),
        ImplProperties(node_name, type_impls_, impl),
        CompleteNodeTypeProperties(node_types_, impl.impl_type))

WithoutCloudifyRuntime(properties) == properties

\* line 1104
WithCloudifyRuntime(properties) ==
    DictWith(properties, "cloudify_runtime", ContainerOf(<<>>))

\* lines 1084 and 1104: the processed node gets the merged properties
WithProperties(call, merged) ==
    IF call.raised THEN call
    ELSE [raised |-> FALSE, error |-> NoError,
          processed_node |-> call.processed_node,
          properties |-> WithCloudifyRuntime(merged.properties),
          relationships |-> call.relationships,
          type_impls |-> call.type_impls,
          relationship_impls |-> call.relationship_impls]

\* lines 1085-1109, given the merged properties
NodeOfProperties(node_name, node, top_level_relationships_, node_names_set, type_impls_, relationship_impls_, plugins_, plugin_names, resource_base_, existing, interface_items, impl, merged) ==
    IF merged.raised
    THEN NodeFailed(merged.error, node.relationships, impl.implementations,
                    relationship_impls_)
    ELSE WithProperties(
             NodeWithOperations(node_name, node, top_level_relationships_,
                 node_names_set, relationship_impls_, impl,
                 ProcessContextOperations(
                     interface_items,
                     plugins_, plugin_names, EmptyDict, NodeOperationErrorCode,
                     resource_base_, existing)),
             merged)

\* lines 1076-1109, given what the type implementation lookup returned
NodeOfType(node_name, node, node_types_, top_level_relationships_, node_names_set, type_impls_, relationship_impls_, plugins_, plugin_names, resource_base_, existing, interface_items, impl) ==
    IF impl.raised
    THEN NodeFailed(impl.error, node.relationships, type_impls_, relationship_impls_)
    ELSE NodeOfProperties(node_name, node, top_level_relationships_,
             node_names_set, type_impls_, relationship_impls_, plugins_,
             plugin_names, resource_base_, existing, interface_items, impl,
             ExtractCompleteNodeProperties(node_name, node, node_types_,
                                           type_impls_, impl))

\* the orders in which lines 1088-1097 can iterate the interfaces of the
\* complete type of the node and their operations (no iteration when the
\* interfaces are not reached)
NodeInterfaceItems(node_name, node, node_types_, type_impls_) ==
    IF node.type \notin DOMAIN node_types_ THEN {<<>>}
    ELSE LET impl == GetTypeImplementationIfExists(node_name, node.type,
                                                   type_impls_, node_types_)
         IN  IF impl.raised THEN {<<>>}
             ELSE IF ExtractCompleteNodeProperties(node_name, node, node_types_,
                                                   type_impls_, impl).raised
             THEN {<<>>}
             ELSE IterationOrders(
                      CompleteNodeInterfaces(node_types_, impl.impl_type, node))

\* _process_node, iterating the interfaces as interface_items: the exception
\* raised if any, the processed node, the relationship objects of the template
\* and the two pools after the call
ProcessNodeCall(node_name, node, node_types_, top_level_relationships_, node_names_set, type_impls_, relationship_impls_, plugins_, plugin_names, resource_base_, existing, interface_items) ==
    IF node.type \notin DOMAIN node_types_
    THEN NodeFailed(LogicError(UnknownNodeTypeErrorCode), node.relationships,
                    type_impls_, relationship_impls_)
    ELSE NodeOfType(node_name, node, node_types_, top_level_relationships_,
             node_names_set, type_impls_, relationship_impls_, plugins_,
             plugin_names, resource_base_, existing, interface_items,
             GetTypeImplementationIfExists(node_name, node.type, type_impls_,
                                           node_types_))

-----------------------------------------------------------------------------
(* Post-processing: _post_process_nodes *)

\* position of the node called node_id in processed_nodes
NodePosition(nodes, node_id) == CHOOSE i \in 1..Len(nodes) : nodes[i].id = node_id

\* _add_base_type_to_relationship with the depends_on family tested first
BaseOfRelationshipTypeDependsFirst(rel_type, contained_in_rel_types, connected_to_rel_types, depends_on_rel_types) ==
    IF rel_type \in depends_on_rel_types THEN "depends"
    ELSE IF rel_type \in contained_in_rel_types THEN "contained"
    ELSE IF rel_type \in connected_to_rel_types THEN "connected"
    ELSE "undefined"

\* _add_base_type_to_relationship: the base of a relationship type
BaseOfRelationshipType(rel_type, contained_in_rel_types, connected_to_rel_types, depends_on_rel_types) ==
    IF rel_type \in contained_in_rel_types THEN "contained"
    ELSE IF rel_type \in connected_to_rel_types THEN "connected"
    ELSE IF rel_type \in depends_on_rel_types THEN "depends"
    ELSE "undefined"

\* the test of line 366 letting two through
TooManyContainedInOverTwo(contained_in_relationships) == Len(contained_in_relationships) > 2

\* the test of line 366
TooManyContainedIn(contained_in_relationships) == Len(contained_in_relationships) > 1

\* lines 352-354 for the relationship at position k of the node at position j,
\* given what binding its source operations returned
WithSourceOperations(acc, k, j, source) ==
    IF source.raised
    THEN [acc EXCEPT !.raised = TRUE, !.error = source.error]
    ELSE [acc EXCEPT !.nodes[j].plugins = source.node_plugins,
                     !.relationships[k].source_operations = source.operations]

\* lines 355-357 with the plugins of the target node left as they were
WithTargetOperationsOnly(acc, k, t, target) ==
    IF target.raised
    THEN [acc EXCEPT !.raised = TRUE, !.error = target.error]
    ELSE [acc EXCEPT !.relationships[k].target_operations = target.operations]

\* lines 355-357, given what binding its target operations returned
WithTargetOperations(acc, k, t, target) ==
    IF target.raised
    THEN [acc EXCEPT !.raised = TRUE, !.error = target.error]
    ELSE [acc EXCEPT !.nodes[t].plugins = target.node_plugins,
                     !.relationships[k].target_operations = target.operations]

\* lines 358-364: the base, the collected contained-in type and the hierarchy
WithBaseAndHierarchy(acc, k, relationships_, contained_in_rel_types) ==
    IF acc.raised THEN acc
    ELSE [acc EXCEPT
             !.relationships[k].base =
                 BaseOfRelationshipType(
                     acc.relationships[k].type, contained_in_rel_types,
                     BuildFamilyDescendantsSet(relationships_, CONNECTED_TO_REL_TYPE),
                     BuildFamilyDescendantsSet(relationships_, DEPENDS_ON_REL_TYPE)),
             !.contained_in_relationships =
                 IF acc.relationships[k].type \in contained_in_rel_types
                 THEN Append(@, acc.relationships[k].type) ELSE @,
             !.relationships[k].type_hierarchy =
                 CreateTypeHierarchy(acc.relationships[k].type, relationships_)]

\* lines 355-357 after the source operations were bound
BindTargetOperations(acc, k, plugins_, plugin_names, resource_base_, existing) ==
    IF acc.raised THEN acc
    ELSE WithTargetOperations(acc, k,
             NodePosition(acc.nodes, acc.relationships[k].target_id),
             ProcessContextOperations(
                 SomeIterationOrder(acc.relationships[k].target_interfaces),
                 plugins_, plugin_names,
                 acc.nodes[NodePosition(acc.nodes,
                                        acc.relationships[k].target_id)].plugins,
                 RelationshipOperationErrorCode, resource_base_, existing))

\* the body of the loop of _post_process_node_relationships for the
\* relationship at position k of the node at position j
PostProcessRelationship(acc, k, j, plugins_, plugin_names, relationships_, resource_base_, existing) ==
    WithBaseAndHierarchy(
        BindTargetOperations(
            WithSourceOperations(acc, k, j,
                ProcessContextOperations(
                    SomeIterationOrder(acc.relationships[k].source_interfaces),
                    plugins_, plugin_names, acc.nodes[j].plugins,
                    RelationshipOperationErrorCode, resource_base_, existing)),
            k, plugins_, plugin_names, resource_base_, existing),
        k, relationships_,
        BuildFamilyDescendantsSet(relationships_, CONTAINED_IN_REL_TYPE))

\* the loop of _post_process_node_relationships over the relationship objects
\* acc.relationships[k..] of the node at position j: the exception raised if
\* any, the processed nodes (their plugins), the relationship objects and the
\* collected contained_in_relationships
RECURSIVE PostProcessRelationshipsLoop(_, _, _, _, _, _, _, _)
PostProcessRelationshipsLoop(acc, k, j, plugins_, plugin_names, relationships_, resource_base_, existing) ==
    IF k > Len(acc.relationships) \/ acc.raised THEN acc
    ELSE PostProcessRelationshipsLoop(
             PostProcessRelationship(acc, k, j, plugins_, plugin_names,
                 relationships_, resource_base_, existing),
             k + 1, j, plugins_, plugin_names, relationships_, resource_base_,
             existing)

\* lines 366-374 and line 283, after the loop
CheckContainedIn(looped, j, node_types_) ==
    IF looped.raised THEN looped
    ELSE IF TooManyContainedIn(looped.contained_in_relationships)
    THEN [looped EXCEPT !.raised = TRUE,
                        !.error = LogicError(ManyContainedInErrorCode)]
    ELSE [looped EXCEPT !.nodes[j].type_hierarchy =
             CreateTypeHierarchy(looped.nodes[j].type, node_types_)]

\* _post_process_node_relationships and line 283 for the node at position j
PostProcessNodeRelationshipsCall(j, nodes, rels, node_types_, plugins_, plugin_names, relationships_, resource_base_, existing) ==
    CheckContainedIn(
        PostProcessRelationshipsLoop(
            [raised |-> FALSE, error |-> NoError, nodes |-> nodes,
             relationships |-> rels, contained_in_relationships |-> <<>>],
            1, j, plugins_, plugin_names, relationships_, resource_base_, existing),
        j, node_types_)

\* the relationships _extract_node_host_id climbs: those of a contained-in type
IsContainedInRelationship(rel, contained_in_rel_types) ==
    rel.type \in contained_in_rel_types

\* _extract_node_host_id that takes the containing node for the host
ExtractNodeHostIdNoClimb(j, nodes, templates, host_types, contained_in_rel_types, visited) ==
    LET processed_node == nodes[j]
        rels == templates[processed_node.name].relationships
        containing == {k \in 1..Len(rels) :
                          IsContainedInRelationship(rels[k], contained_in_rel_types)}
    IN  IF processed_node.type \in host_types
        THEN [kind |-> "host", host_id |-> processed_node.id]
        ELSE IF containing = {}
        THEN [kind |-> "none", host_id |-> ""]
        ELSE [kind |-> "host",
              host_id |-> rels[CHOOSE k \in containing :
                                   \A other \in containing : k <= other].target_id]

\* _extract_node_host_id for the node at position j; visited are the nodes
\* the recursion is in, and coming back to one of them never returns
RECURSIVE ExtractNodeHostId(_, _, _, _, _, _)
ExtractNodeHostId(j, nodes, templates, host_types, contained_in_rel_types, visited) ==
    LET processed_node == nodes[j]
        rels == templates[processed_node.name].relationships
        containing == {k \in 1..Len(rels) :
                          IsContainedInRelationship(rels[k], contained_in_rel_types)}
    IN  IF processed_node.type \in host_types
        THEN [kind |-> "host", host_id |-> processed_node.id]
        ELSE IF containing = {}
        THEN [kind |-> "none", host_id |-> ""]
        ELSE LET first == CHOOSE k \in containing : \A other \in containing : k <= other
                 target == rels[first].target_id
             IN  IF target \in visited \cup {processed_node.id}
                 THEN [kind |-> "recursion", host_id |-> ""]
                 ELSE ExtractNodeHostId(NodePosition(nodes, target), nodes, templates,
                          host_types, contained_in_rel_types,
                          visited \cup {processed_node.id})

\* line 306 accepting either executor
IsAgentPlugin(plugin_obj) ==
    plugin_obj.executor \in {HOST_AGENT, CENTRAL_DEPLOYMENT_AGENT}

\* the executor a plugin must have to be installed on the host, line 306
IsHostAgentPlugin(plugin_obj) == plugin_obj.executor = HOST_AGENT

\* the nodes that lines 300-302 accumulate from for the host node_id
HostedNodes(nodes, node_id) ==
    {i \in 1..Len(nodes) : nodes[i].has_host_id /\ nodes[i].host_id = node_id}

\* the plugins_to_install dict of lines 296-308 for the host node_id
PluginsToInstall(nodes, node_id) ==
    LET contributed(name) ==
            {i \in HostedNodes(nodes, node_id) :
                /\ name \in DOMAIN nodes[i].plugins
                /\ IsHostAgentPlugin(nodes[i].plugins[name])}
        names == {name \in UNION {DOMAIN nodes[i].plugins : i \in 1..Len(nodes)} :
                     contributed(name) # {}}
    IN  [name \in names |->
            nodes[CHOOSE i \in contributed(name) : TRUE].plugins[name]]

\* the deployment_plugins_to_install dict of lines 313-317 for a node
DeploymentPluginsToInstall(node) ==
    [name \in {n \in DOMAIN node.plugins :
                  node.plugins[n].executor = CENTRAL_DEPLOYMENT_AGENT}
        |-> node.plugins[name]]

\* the test of _validate_agent_plugins_on_host_nodes on the other executor
CentralPluginWithoutHost(node) ==
    /\ ~node.has_host_id
    /\ \E n \in DOMAIN node.plugins : node.plugins[n].executor = CENTRAL_DEPLOYMENT_AGENT

\* the test of _validate_agent_plugins_on_host_nodes for one node
HostAgentPluginWithoutHost(node) ==
    /\ ~node.has_host_id
    /\ \E n \in DOMAIN node.plugins : node.plugins[n].executor = HOST_AGENT

-----------------------------------------------------------------------------
(* The compile of one blueprint: _parse from line 190 on *)

AllNodeNames == <<"n1", "n2", "n3">>

\* the order in which nodes.iteritems() hands out the templates
NodeOrder(templates) == SelectSeq(AllNodeNames, LAMBDA n : n \in DOMAIN templates)

Fail(err) ==
    /\ pc' = "failed"
    /\ error' = err

\* dict.values(), in some order
DictValues(dict) ==
    LET keys == AnyOrder(DOMAIN dict)
    IN  [i \in 1..Len(keys) |-> dict[keys[i]]]

\* lines 193-200: the complete relationship types, each validated by binding
\* the operations its own interfaces declare
ProcessRelationships ==
    /\ pc = "process_relationships"
    /\ \E plugin_names \in Orders(DOMAIN plugins) :
       \E bound \in {ProcessContextOperations(
                         RelationshipTypeItems(relationships,
                                               AnyOrder(DOMAIN relationships)),
                         plugins, plugin_names, EmptyDict,
                         RelationshipOperationErrorCode, resource_base, resources)} :
          IF bound.raised
          THEN /\ Fail(bound.error)
               /\ UNCHANGED top_level_relationships
          ELSE /\ top_level_relationships' =
                      [name \in DOMAIN relationships |->
                          ExtractCompleteRelationshipType(relationships, name)]
               /\ pc' = "process_nodes"
               /\ UNCHANGED error
    /\ UNCHANGED <<output_vars, resolver_vars, function_vars, import_vars, plugins, resource_base, resources, binder_vars, workflow_vars,
                   node_types,
                   relationships, node_templates, type_impls, relationship_impls,
                   processed_nodes, node_index>>

\* lines 206-210: _process_node on the next template
ProcessNode ==
    /\ pc = "process_nodes"
    /\ node_index < Len(NodeOrder(node_templates))
    /\ \E plugin_names \in Orders(DOMAIN plugins) :
       \E node_name \in {NodeOrder(node_templates)[node_index + 1]} :
       \E interface_items \in NodeInterfaceItems(node_name, node_templates[node_name],
                                                 node_types, type_impls) :
       \E call \in {ProcessNodeCall(node_name, node_templates[node_name],
                        node_types, top_level_relationships,
                        DOMAIN node_templates, type_impls, relationship_impls,
                        plugins, plugin_names, resource_base, resources,
                        interface_items)} :
          /\ node_templates' = [node_templates EXCEPT
                                   ![node_name].relationships = call.relationships]
          /\ type_impls' = call.type_impls
          /\ relationship_impls' = call.relationship_impls
          /\ IF call.raised
             THEN /\ Fail(call.error)
                  /\ UNCHANGED <<processed_nodes, node_index, node_properties>>
             ELSE /\ processed_nodes' = Append(processed_nodes, call.processed_node)
                  /\ node_properties' = DictWith(node_properties, node_name,
                                                 call.properties)
                  /\ IF node_index + 1 = Len(NodeOrder(node_templates))
                     THEN pc' = "post_process_relationships" /\ node_index' = 0
                     ELSE pc' = pc /\ node_index' = node_index + 1
                  /\ UNCHANGED error
    /\ UNCHANGED <<output_vars, resolver_vars, import_vars, plugins, resource_base, resources, binder_vars, workflow_vars,
                   node_types,
                   relationships, top_level_relationships>>

\* lines 274-283: _post_process_node_relationships and the type hierarchy of
\* the next processed node
PostProcessNodeRelationships ==
    /\ pc = "post_process_relationships"
    /\ node_index < Len(processed_nodes)
    /\ \E plugin_names \in Orders(DOMAIN plugins) :
       \E node_name \in {processed_nodes[node_index + 1].name} :
       \E call \in {PostProcessNodeRelationshipsCall(
                        node_index + 1, processed_nodes,
                        node_templates[node_name].relationships, node_types,
                        plugins, plugin_names, relationships, resource_base,
                        resources)} :
          /\ node_templates' = [node_templates EXCEPT
                                   ![node_name].relationships = call.relationships]
          /\ processed_nodes' = call.nodes
          /\ IF call.raised
             THEN Fail(call.error) /\ UNCHANGED node_index
             ELSE /\ IF node_index + 1 = Len(processed_nodes)
                     THEN pc' = "host_ids" /\ node_index' = 0
                     ELSE pc' = pc /\ node_index' = node_index + 1
                  /\ UNCHANGED error
    /\ UNCHANGED <<output_vars, resolver_vars, function_vars, import_vars, plugins, resource_base, resources, binder_vars, workflow_vars,
                   node_types,
                   relationships, top_level_relationships, type_impls,
                   relationship_impls>>

\* lines 285-291: host_id of every node
SetHostIds ==
    /\ pc = "host_ids"
    /\ IF FamilyDescendantsFailures(node_types, HOST_TYPE) # {}
       THEN \E type_name \in FamilyDescendantsFailures(node_types, HOST_TYPE) :
               /\ Fail(IF IsDerivedFromOutcome(type_name, node_types, HOST_TYPE, {})
                            = "KeyError"
                       THEN KeyError ELSE RecursionError)
               /\ UNCHANGED processed_nodes
       ELSE
       \E host \in {[j \in 1..Len(processed_nodes) |->
                       ExtractNodeHostId(j, processed_nodes, node_templates,
                           BuildFamilyDescendantsSet(node_types, HOST_TYPE),
                           BuildFamilyDescendantsSet(relationships,
                                                     CONTAINED_IN_REL_TYPE),
                           {})]} :
          IF \E j \in 1..Len(processed_nodes) : host[j].kind = "recursion"
          THEN Fail(RecursionError) /\ UNCHANGED processed_nodes
          ELSE /\ processed_nodes' =
                      [j \in 1..Len(processed_nodes) |->
                          IF host[j].kind = "host"
                          THEN [processed_nodes[j] EXCEPT
                                   !.has_host_id = TRUE,
                                   !.host_id = host[j].host_id]
                          ELSE processed_nodes[j]]
               /\ pc' = "plugins_to_install"
               /\ UNCHANGED error
    /\ UNCHANGED <<output_vars, resolver_vars, function_vars, import_vars, plugins, resource_base, resources, binder_vars, workflow_vars,
                   node_types,
                   relationships, top_level_relationships, node_templates,
                   type_impls, relationship_impls, node_index>>

\* lines 293-309: plugins_to_install of every host node
SetPluginsToInstall ==
    /\ pc = "plugins_to_install"
    /\ LET host_types == BuildFamilyDescendantsSet(node_types, HOST_TYPE)
       IN  processed_nodes' =
               [j \in 1..Len(processed_nodes) |->
                   IF processed_nodes[j].type \in host_types
                   THEN [processed_nodes[j] EXCEPT
                            !.has_plugins_to_install = TRUE,
                            !.plugins_to_install =
                                DictValues(PluginsToInstall(processed_nodes,
                                                            processed_nodes[j].id))]
                   ELSE processed_nodes[j]]
    /\ pc' = "deployment_plugins_to_install"
    /\ UNCHANGED <<output_vars, resolver_vars, function_vars, import_vars, plugins, resource_base, resources, binder_vars, workflow_vars,
                   node_types,
                   relationships, top_level_relationships, node_templates,
                   type_impls, relationship_impls, node_index, error>>

\* lines 311-319: deployment_plugins_to_install of every node
SetDeploymentPluginsToInstall ==
    /\ pc = "deployment_plugins_to_install"
    /\ processed_nodes' =
           [j \in 1..Len(processed_nodes) |->
               [processed_nodes[j] EXCEPT
                   !.has_deployment_plugins_to_install = TRUE,
                   !.deployment_plugins_to_install =
                       DictValues(DeploymentPluginsToInstall(processed_nodes[j]))]]
    /\ pc' = "validate"
    /\ UNCHANGED <<output_vars, resolver_vars, function_vars, import_vars, plugins, resource_base, resources, binder_vars, workflow_vars,
                   node_types,
                   relationships, top_level_relationships, node_templates,
                   type_impls, relationship_impls, node_index, error>>

\* lines 321-323: the host-agent check, then the two pools
FirstUnusedPoolRelationshipsFirst(type_impls_, relationship_impls_) ==
    IF DOMAIN relationship_impls_ # {} THEN "relationship_implementations"
    ELSE IF DOMAIN type_impls_ # {} THEN "type_implementations"
    ELSE "none"

\* lines 322-323: the pool whose first item raises, the type implementations
\* being validated before the relationship implementations
FirstUnusedPool(type_impls_, relationship_impls_) ==
    IF DOMAIN type_impls_ # {} THEN "type_implementations"
    ELSE IF DOMAIN relationship_impls_ # {} THEN "relationship_implementations"
    ELSE "none"

ValidatePostProcessedNodes ==
    /\ pc = "validate"
    /\ IF \E j \in 1..Len(processed_nodes) : HostAgentPluginWithoutHost(processed_nodes[j])
       THEN Fail(LogicError(HostAgentWithoutHostErrorCode))
       ELSE IF FirstUnusedPool(type_impls, relationship_impls) = "type_implementations"
       THEN \E impl_name \in DOMAIN type_impls :
               Fail(UnusedTypeImplError(impl_name, type_impls[impl_name].node_ref))
       ELSE IF FirstUnusedPool(type_impls, relationship_impls)
                  = "relationship_implementations"
       THEN \E impl_name \in DOMAIN relationship_impls :
               Fail(UnusedRelationshipImplError(
                        impl_name, relationship_impls[impl_name].source_node_ref))
       ELSE pc' = "finish" /\ UNCHANGED error
    /\ UNCHANGED <<output_vars, resolver_vars, function_vars, import_vars, plugins, resource_base, resources, binder_vars, workflow_vars,
                   node_types,
                   relationships, top_level_relationships, node_templates,
                   type_impls, relationship_impls, processed_nodes, node_index>>

\* line 811 for one workflow, or the exception the binder raised
RecordWorkflow(acc, name, descriptor) ==
    IF descriptor.kind = "raised"
    THEN [acc EXCEPT !.raised = TRUE, !.error = LogicError(descriptor.code)]
    ELSE [acc EXCEPT !.processed_workflows =
             DictUpdate(@, [k \in {name} |-> descriptor.op_struct])]

\* the loop of _process_workflows over the workflows taken in order[i..]: the
\* exception raised if any and processed_workflows
RECURSIVE WorkflowsLoop(_, _, _, _, _, _, _, _)
WorkflowsLoop(workflows_, order, i, plugins_, plugin_names, resource_base_, existing, acc) ==
    IF i > Len(order) \/ acc.raised THEN acc
    ELSE WorkflowsLoop(workflows_, order, i + 1, plugins_, plugin_names,
             resource_base_, existing,
             RecordWorkflow(acc, order[i],
                 ExtractPluginNameAndOperationMapping(
                     plugins_, plugin_names, order[i], workflows_[order[i]],
                     WorkflowErrorCode, resource_base_, existing, TRUE).result))

\* _process_workflows
ProcessWorkflowsCall(workflows_, order, plugins_, plugin_names, resource_base_, existing) ==
    WorkflowsLoop(workflows_, order, 1, plugins_, plugin_names, resource_base_,
        existing,
        [raised |-> FALSE, error |-> NoError, processed_workflows |-> EmptyDict])

\* the loop of _create_plan_workflow_plugins over the workflows taken in
\* order[i..]: the KeyError raised if any, the list and the names seen
RECURSIVE WorkflowPluginsLoop(_, _, _, _, _)
WorkflowPluginsLoop(workflows_, order, i, plugins_, acc) ==
    IF i > Len(order) \/ acc.raised THEN acc
    ELSE WorkflowPluginsLoop(workflows_, order, i + 1, plugins_,
             IF workflows_[order[i]].plugin \in acc.workflow_plugin_names THEN acc
             ELSE IF workflows_[order[i]].plugin \notin DOMAIN plugins_
             THEN [acc EXCEPT !.raised = TRUE, !.error = KeyError]
             ELSE [acc EXCEPT
                      !.workflow_plugins =
                          Append(@, plugins_[workflows_[order[i]].plugin]),
                      !.workflow_plugin_names =
                          @ \cup {workflows_[order[i]].plugin}])

\* _create_plan_workflow_plugins
CreatePlanWorkflowPlugins(workflows_, order, plugins_) ==
    WorkflowPluginsLoop(workflows_, order, 1, plugins_,
        [raised |-> FALSE, error |-> NoError, workflow_plugins |-> <<>>,
         workflow_plugin_names |-> {}])

\* the inner loop of _create_plan_deployment_plugins over the list
\* management_plugins[k..] of one node
RECURSIVE ManagementPluginsLoop(_, _, _)
ManagementPluginsLoop(management_plugins, k, acc) ==
    IF k > Len(management_plugins) THEN acc
    ELSE ManagementPluginsLoop(management_plugins, k + 1,
             IF management_plugins[k].name \in acc.deployment_plugin_names THEN acc
             ELSE [deployment_plugins |->
                       Append(acc.deployment_plugins, management_plugins[k]),
                   deployment_plugin_names |->
                       acc.deployment_plugin_names \cup {management_plugins[k].name}])

\* the outer loop of _create_plan_deployment_plugins over nodes[j..]
RECURSIVE DeploymentPluginsLoop(_, _, _)
DeploymentPluginsLoop(nodes, j, acc) ==
    IF j > Len(nodes) THEN acc
    ELSE DeploymentPluginsLoop(nodes, j + 1,
             IF nodes[j].has_deployment_plugins_to_install
             THEN ManagementPluginsLoop(nodes[j].deployment_plugins_to_install, 1, acc)
             ELSE acc)

\* _create_plan_deployment_plugins
CreatePlanDeploymentPlugins(nodes) ==
    DeploymentPluginsLoop(nodes, 1,
        [deployment_plugins |-> <<>>, deployment_plugin_names |-> {}]).deployment_plugins

\* lines 223-226: _process_workflows
ProcessWorkflows ==
    /\ pc = "finish"
    /\ \E plugin_names \in Orders(DOMAIN plugins) :
       \E order \in Orders(DOMAIN workflows) :
       \E call \in {ProcessWorkflowsCall(workflows, order, plugins, plugin_names,
                                         resource_base, resources)} :
          IF call.raised
          THEN Fail(call.error) /\ UNCHANGED processed_workflows
          ELSE /\ processed_workflows' = call.processed_workflows
               /\ pc' = "plan_plugins"
               /\ UNCHANGED error
    /\ UNCHANGED <<output_vars, resolver_vars, function_vars, import_vars, plugins, resource_base, resources, binder_vars, node_types,
                   relationships, top_level_relationships, node_templates,
                   type_impls, relationship_impls, processed_nodes, node_index,
                   workflows, workflow_plugins_to_install,
                   deployment_plugins_to_install>>

\* lines 227-231: the two plugin lists of the plan
CreatePlanPlugins ==
    /\ pc = "plan_plugins"
    /\ \E order \in Orders(DOMAIN processed_workflows) :
       \E call \in {CreatePlanWorkflowPlugins(processed_workflows, order, plugins)} :
          IF call.raised
          THEN /\ Fail(call.error)
               /\ UNCHANGED <<workflow_plugins_to_install,
                              deployment_plugins_to_install>>
          ELSE /\ workflow_plugins_to_install' = call.workflow_plugins
               /\ deployment_plugins_to_install' =
                      CreatePlanDeploymentPlugins(processed_nodes)
               /\ pc' = "plan"
               /\ UNCHANGED error
    /\ UNCHANGED <<output_vars, resolver_vars, function_vars, import_vars, plugins, resource_base, resources, binder_vars, node_types,
                   relationships, top_level_relationships, node_templates,
                   type_impls, relationship_impls, processed_nodes, node_index,
                   workflows, processed_workflows>>

\* lines 233-256 for a blueprint without policies and groups: the plan is built
FinishParse ==
    /\ pc = "plan"
    /\ pc' = "validate_functions"
    /\ UNCHANGED <<output_vars, resolver_vars, function_vars, import_vars, plugins, resource_base, resources, binder_vars,
                   plan_vars, workflow_vars>>

(* _validate_functions: the intrinsic functions of the plan.  A property value
   is a scalar, or a mapping or list of scalars, given by its leaves in the
   order its iteration takes them; a scalar is a string or the raw form
   {name: args} of an intrinsic function. *)

GET_PROPERTY_FUNCTION == "get_property"

GET_INPUT_FUNCTION == "get_input"

\* the functions registered for templates
TemplateFunctions == {GET_PROPERTY_FUNCTION, GET_INPUT_FUNCTION}

FUNCTION_NAME_PATH_SEPARATOR == "__sep__"

\* functions.parse: the instance of a raw function, that keeps the raw form;
\* any other value as it is
Parse(v) ==
    IF v.kind \in TemplateFunctions
    THEN [kind |-> "Function", name |-> v.kind, args |-> v.args, raw |-> v]
    ELSE v

\* isinstance(v, functions.Function)
IsFunction(v) == v.kind = "Function"

\* isinstance(v, functions.GetProperty)
IsGetProperty(v) == IsFunction(v) /\ v.name = GET_PROPERTY_FUNCTION

\* GetProperty.get_node_template(plan)['name'] and GetProperty.property_path
NodeNameOf(func) == func.args[1]

PropertyPathOf(func) == Tail(func.args)

\* GetProperty.evaluate: the value of the property in the plan as it is now
Evaluate(func, plan) == plan[NodeNameOf(func)][PropertyPathOf(func)[1]]

\* separator.join(strings), in tokens
RECURSIVE Join(_, _)
Join(strings, separator) ==
    IF Len(strings) = 0 THEN <<>>
    ELSE IF Len(strings) = 1 THEN strings[1]
    ELSE strings[1] \o <<separator>> \o Join(Tail(strings), separator)

\* lines 528-530 and 535-538: '{0}.{1}'.format(node name, joined property path)
FuncId(func) ==
    <<NodeNameOf(func), ".">>
        \o Join([i \in 1..Len(PropertyPathOf(func)) |-> <<PropertyPathOf(func)[i]>>],
                FUNCTION_NAME_PATH_SEPARATOR)

\* line 542: x.replace(FUNCTION_NAME_PATH_SEPARATOR, ',')
ReplaceSeparator(x) ==
    [i \in 1..Len(x) |-> IF x[i] = FUNCTION_NAME_PATH_SEPARATOR THEN "," ELSE x[i]]

\* lines 541-547: the error of a circular call, from the visited ids
CircularCallError(visited_functions) ==
    [type |-> "RuntimeError", code |-> 0,
     message |-> <<"Circular get_property function call detected: ">>
                 \o Join([i \in 1..Len(visited_functions) |->
                             ReplaceSeparator(visited_functions[i])], " -> ")]

\* lines 511-518: the handler of the first scan; validate raises nothing for
\* a function whose node and property exist
Handler(v) ==
    LET _func == Parse(v)
    IN  IF IsGetProperty(_func) THEN _func ELSE v

ReplaceWithRawFunctionKeepingInstance(v) == v

\* lines 557-560
ReplaceWithRawFunction(v) ==
    IF IsGetProperty(v) THEN v.raw ELSE v

CallHandler(handler, v) ==
    IF handler = "handler" THEN Handler(v) ELSE ReplaceWithRawFunction(v)

\* scan.scan_service_template(plan, handler, replace=True): every leaf of the
\* node properties is replaced by what the handler returns for it
ScanServiceTemplate(plan, handler) ==
    [n \in DOMAIN plan |->
        [p \in DOMAIN plan[n] |->
            [is_container |-> plan[n][p].is_container,
             items |-> [i \in 1..Len(plan[n][p].items) |->
                           CallHandler(handler, plan[n][p].items[i])]]]]

\* the (node, property) pairs of the plan
PropertyKeys(plan) ==
    UNION {{<<n, p>> : p \in DOMAIN plan[n]} : n \in DOMAIN plan}

\* the properties that hold a get_property: the scan meets them in some order
GetPropertyKeys(plan) ==
    {k \in PropertyKeys(plan) :
        \E i \in 1..Len(plan[k[1]][k[2]].items) :
            plan[k[1]][k[2]].items[i].kind = GET_PROPERTY_FUNCTION}

SelectGetProperty(v) == IsGetProperty(v)

\* lines 509 and 516: the instances the handler collected, in the order of
\* the scan
RECURSIVE GetPropertyFunctions(_, _, _, _)
GetPropertyFunctions(plan, keys, i, get_property_functions) ==
    IF i > Len(keys) THEN get_property_functions
    ELSE GetPropertyFunctions(plan, keys, i + 1,
             get_property_functions
                 \o SelectSeq(plan[keys[i][1]][keys[i][2]].items, SelectGetProperty))

IsVisited(func_id, visited_functions) ==
    \E i \in 1..Len(visited_functions) : visited_functions[i] = func_id

\* lines 532-552: validate_no_circular_get_property; check holds the visited
\* ids and whether the call raised
RECURSIVE ValidateNoCircularGetProperty(_, _, _)
RECURSIVE ScanProperties(_, _, _, _)
ValidateNoCircularGetProperty(check, r, plan) ==
    IF check.raised THEN check
    ELSE IF r.is_container THEN ScanProperties(check, r.items, 1, plan)
    ELSE IF IsGetProperty(r.items[1])
    THEN IF IsVisited(FuncId(r.items[1]), check.visited)
         THEN [raised |-> TRUE,
               visited |-> Append(check.visited, FuncId(r.items[1]))]
         ELSE ValidateNoCircularGetProperty(
                  [raised |-> FALSE,
                   visited |-> Append(check.visited, FuncId(r.items[1]))],
                  Evaluate(r.items[1], plan), plan)
    ELSE check

\* scan.scan_properties(r, validate_no_circular_get_property): the leaves of a
\* mapping or list, one after the other
ScanProperties(check, items, i, plan) ==
    IF i > Len(items) \/ check.raised THEN check
    ELSE ScanProperties(ValidateNoCircularGetProperty(check, Scalar(items[i]), plan),
                        items, i + 1, plan)

\* lines 526-554: the loop over the collected functions
RECURSIVE CircularCallsLoop(_, _, _)
CircularCallsLoop(get_property_functions, i, plan) ==
    IF i > Len(get_property_functions) THEN [raised |-> FALSE, visited |-> <<>>]
    ELSE LET check == ValidateNoCircularGetProperty(
                          [raised |-> FALSE,
                           visited |-> <<FuncId(get_property_functions[i])>>],
                          Evaluate(get_property_functions[i], plan), plan)
         IN  IF check.raised THEN check
             ELSE CircularCallsLoop(get_property_functions, i + 1, plan)

ValidateReplacedFunctionsWithoutCheck(replaced, get_property_functions, check) ==
    [raised |-> FALSE, error |-> NoError,
     plan |-> ScanServiceTemplate(replaced, "replace_with_raw_function")]

\* lines 520-563, after the first scan
ValidateReplacedFunctions(replaced, get_property_functions, check) ==
    IF Len(get_property_functions) = 0
    THEN [raised |-> FALSE, error |-> NoError, plan |-> replaced]
    ELSE IF check.raised
    THEN [raised |-> TRUE, error |-> CircularCallError(check.visited),
          plan |-> replaced]
    ELSE [raised |-> FALSE, error |-> NoError,
          plan |-> ScanServiceTemplate(replaced, "replace_with_raw_function")]

\* line 258: _validate_functions(plan)
ValidateFunctions ==
    /\ pc = "validate_functions"
    /\ \E keys \in Orders(GetPropertyKeys(node_properties)) :
       \E replaced \in {ScanServiceTemplate(node_properties, "handler")} :
       \E get_property_functions \in {GetPropertyFunctions(replaced, keys, 1, <<>>)} :
       \E check \in {CircularCallsLoop(get_property_functions, 1, replaced)} :
       \E call \in {ValidateReplacedFunctions(replaced, get_property_functions,
                                              check)} :
          /\ node_properties' = call.plan
          /\ IF call.raised
             THEN Fail(call.error)
             ELSE pc' = "done" /\ UNCHANGED error
    /\ UNCHANGED <<output_vars, resolver_vars, import_vars, plugins, resource_base, resources, binder_vars,
                   node_types, relationships, top_level_relationships,
                   node_templates, type_impls, relationship_impls,
                   processed_nodes, node_index, workflow_vars>>

NextParse ==
    \/ ProcessRelationships
    \/ ProcessNode
    \/ PostProcessNodeRelationships
    \/ SetHostIds
    \/ SetPluginsToInstall
    \/ SetDeploymentPluginsToInstall
    \/ ValidatePostProcessedNodes
    \/ ProcessWorkflows
    \/ CreatePlanPlugins
    \/ FinishParse
    \/ ValidateFunctions

-----------------------------------------------------------------------------
(* The blueprints compiled *)

MaxRels == 2

\* an operation entry that is the string mapping
StrOperation(mapping) ==
    [is_str |-> TRUE, has_mapping |-> TRUE, mapping |-> mapping,
     has_payload |-> FALSE, payload |-> EmptyDict]

\* the interfaces dict with one interface that has one operation
OneOperation(interface_name, operation_name_, mapping) ==
    [i \in {interface_name} |-> [o \in {operation_name_} |-> StrOperation(mapping)]]

\* the plugins a blueprint may declare
PlanPlugin(name) ==
    ProcessedPlugin(name, IF name \in {<<"cp">>, <<"cq">>}
                          THEN CENTRAL_DEPLOYMENT_AGENT
                          ELSE HOST_AGENT)

PlanNodeTypes ==
    [t \in {HOST_TYPE, "vm", "app"} |->
        IF t = "vm" THEN NodeType(TRUE, HOST_TYPE) ELSE NodeType(FALSE, "")]

\* the relationship types: the three built-in families, a type two levels
\* below depends_on whose source operation runs on a host-agent plugin, and
\* a type outside the families
PlanRelationshipTypes ==
    [t \in {DEPENDS_ON_REL_TYPE, CONNECTED_TO_REL_TYPE, CONTAINED_IN_REL_TYPE,
            "hosted", "custom"} |->
        IF t \in {CONNECTED_TO_REL_TYPE, CONTAINED_IN_REL_TYPE}
        THEN RelationshipType(TRUE, DEPENDS_ON_REL_TYPE)
        ELSE IF t = "hosted"
        THEN [RelationshipType(TRUE, CONTAINED_IN_REL_TYPE) EXCEPT
                 !.source_interfaces =
                     OneOperation(<<"lifecycle">>, <<"establish">>,
                                  <<"hp", ".", "run">>)]
        ELSE RelationshipType(FALSE, "")]

\* the sequences of exactly k elements of S
RECURSIVE SeqsOfLen(_, _)
SeqsOfLen(S, k) ==
    IF k = 0 THEN {<<>>}
    ELSE {Append(s, x) : s \in SeqsOfLen(S, k - 1), x \in S}

\* how many relationship instances each of the three nodes declares
RelationshipCounts ==
    {c \in [1..3 -> 0..MaxRels] : c[1] + c[2] + c[3] <= MaxRels}

\* blueprints of three nodes: node i has a type of type_choices[i], interfaces
\* of interface_choices[i] and relationship instances of rel_choices[i]
InitPlan(plugin_names, type_choices, interface_choices, rel_choices) ==
    /\ plugins = [n \in plugin_names |-> PlanPlugin(n)]
    /\ resource_base = ""
    /\ resources = {}
    /\ operation_name = <<"start">>
    /\ operation_content = StrOperation(EmptyStr)
    /\ op_descriptor = NotCalled
    /\ node_types = PlanNodeTypes
    /\ relationships = PlanRelationshipTypes
    /\ top_level_relationships = EmptyDict
    /\ \E c \in RelationshipCounts :
       \E t1 \in type_choices[1] : \E t2 \in type_choices[2] :
       \E t3 \in type_choices[3] :
       \E i1 \in interface_choices[1] : \E i2 \in interface_choices[2] :
       \E i3 \in interface_choices[3] :
       \E r1 \in SeqsOfLen(rel_choices[1], c[1]) :
       \E r2 \in SeqsOfLen(rel_choices[2], c[2]) :
       \E r3 \in SeqsOfLen(rel_choices[3], c[3]) :
          node_templates =
              [n \in {"n1", "n2", "n3"} |->
                  IF n = "n1" THEN NodeTemplate(t1, i1, r1)
                  ELSE IF n = "n2" THEN NodeTemplate(t2, i2, r2)
                  ELSE NodeTemplate(t3, i3, r3)]
    /\ processed_nodes = <<>>
    /\ node_index = 0
    /\ error = NoError
    /\ processed_workflows = EmptyDict
    /\ workflow_plugins_to_install = <<>>
    /\ deployment_plugins_to_install = <<>>
    /\ pc = "process_relationships"
    /\ NoImports
    /\ NoResolver
    /\ NoOutputs

\* a blueprint without type_implementations and relationship_implementations
NoImplementations ==
    /\ type_impls = EmptyDict
    /\ relationship_impls = EmptyDict

\* a blueprint without workflows
NoWorkflows == workflows = EmptyDict

\* relationship instances of every declared and of an undeclared type, to
\* every node and to an undeclared one
AnyRelationshipInstances ==
    {RelationshipInstance(type, target, EmptyDict, EmptyDict) :
        type \in DOMAIN PlanRelationshipTypes \cup {"nosuch"},
        target \in {"n1", "n2", "n3", "nosuch"}}

\* blueprints that vary the relationship instances
InitRelationships ==
    /\ InitPlan({<<"hp">>}, <<{"vm"}, {"app"}, {"app"}>>,
             <<{EmptyDict}, {EmptyDict}, {EmptyDict}>>,
             <<AnyRelationshipInstances, AnyRelationshipInstances,
               AnyRelationshipInstances>>)
    /\ NoImplementations
    /\ NoWorkflows
    /\ NoFunctions

SpecRelationships == InitRelationships /\ [][NextParse]_vars

\* the operations a node template may declare
NodeInterfaceChoices ==
    {EmptyDict,
     OneOperation(<<"lifecycle">>, <<"start">>, <<"hp", ".", "run">>),
     OneOperation(<<"lifecycle">>, <<"start">>, <<"cp", ".", "run">>)}

\* the relationship instances that contain the node called source in another
ContainedInInstances(source) ==
    {RelationshipInstance(type, target, EmptyDict, EmptyDict) :
        type \in {CONTAINED_IN_REL_TYPE, "hosted"},
        target \in {"n1", "n2", "n3"} \ {source}}

\* blueprints that vary what hosts what and the plugins of the nodes
InitHosts ==
    /\ InitPlan({<<"hp">>, <<"cp">>}, <<{"vm", "app"}, {"vm", "app"}, {"app"}>>,
             <<{EmptyDict, OneOperation(<<"lifecycle">>, <<"start">>,
                                        <<"hp", ".", "run">>)},
               NodeInterfaceChoices, NodeInterfaceChoices>>,
             <<ContainedInInstances("n1"), ContainedInInstances("n2"),
               ContainedInInstances("n3")>>)
    /\ NoImplementations
    /\ NoWorkflows
    /\ NoFunctions

SpecHosts == InitHosts /\ [][NextParse]_vars

\* the workflows a blueprint may declare: a mapping on a host-agent plugin, on
\* a central plugin, the empty mapping, and a mapping no plugin matches
WorkflowMappings ==
    {StrOperation(<<"hp", ".", "run">>), StrOperation(<<"cp", ".", "run">>),
     StrOperation(EmptyStr), StrOperation(<<"x", ".", "run">>)}

WorkflowChoices ==
    UNION {[names -> WorkflowMappings] : names \in SUBSET {<<"w1">>, <<"w2">>}}

\* the operations of a node on one of the two central plugins
CentralInterfaceChoices ==
    {EmptyDict,
     OneOperation(<<"lifecycle">>, <<"start">>, <<"cp", ".", "run">>),
     OneOperation(<<"lifecycle">>, <<"start">>, <<"cq", ".", "run">>)}

\* blueprints that vary the workflows and the central plugins of the nodes
InitWorkflows ==
    /\ InitPlan({<<"hp">>, <<"cp">>, <<"cq">>}, <<{"vm"}, {"vm"}, {"app"}>>,
                <<CentralInterfaceChoices, CentralInterfaceChoices,
                  CentralInterfaceChoices>>,
                <<{}, {}, {}>>)
    /\ NoImplementations
    /\ workflows \in WorkflowChoices
    /\ NoFunctions

SpecWorkflows == InitWorkflows /\ [][NextParse]_vars

TypeImplementation(type, node_ref) == [type |-> type, node_ref |-> node_ref]

RelationshipImplementation(type, source_node_ref, target_node_ref) ==
    [type |-> type, source_node_ref |-> source_node_ref,
     target_node_ref |-> target_node_ref]

\* the dicts that hold under each name of names one of choices, or nothing
DictsOver(first_name, first_choices, second_name, second_choices) ==
    {[n \in {} |-> 0]}
    \cup {[n \in {first_name} |-> c] : c \in first_choices}
    \cup {[n \in {second_name} |-> c] : c \in second_choices}
    \cup {[n \in {first_name, second_name} |->
              IF n = first_name THEN c1 ELSE c2] :
          c1 \in first_choices, c2 \in second_choices}

\* type implementations of a derived, the same, an unrelated and an undeclared
\* type, for a host node, another node and a node that does not exist; a second
\* one for the host node
TypeImplementationChoices ==
    DictsOver("i1",
              {TypeImplementation(type, node_ref) :
                  type \in {"vm", HOST_TYPE, "app", "nosuch"},
                  node_ref \in {"n1", "n2", "nosuch"}},
              "i2", {TypeImplementation("vm", "n1")})

\* relationship implementations from n2 to n1
RelationshipImplementationChoices ==
    DictsOver("r1",
              {RelationshipImplementation(type, "n2", "n1") :
                  type \in {CONNECTED_TO_REL_TYPE, "hosted", "custom", "nosuch"}},
              "r2",
              {RelationshipImplementation(type, "n2", "n1") :
                  type \in {CONNECTED_TO_REL_TYPE, "hosted"}})

\* the relationship instances of n2 in these blueprints
InstancesToImplement ==
    {RelationshipInstance(type, "n1", EmptyDict, EmptyDict) :
        type \in {DEPENDS_ON_REL_TYPE, "custom"}}

\* n3, a node that no node hosts, with or without an operation of a host_agent
\* plugin
HostAgentInterfaceChoices ==
    {EmptyDict,
     OneOperation(<<"lifecycle">>, <<"start">>, <<"hp", ".", "run">>)}

\* blueprints that vary the two pools of implementations
InitImplementations ==
    /\ InitPlan({<<"hp">>}, <<{HOST_TYPE}, {"app"}, {"app"}>>,
                <<{EmptyDict}, {EmptyDict}, HostAgentInterfaceChoices>>,
                <<{}, InstancesToImplement, {}>>)
    /\ type_impls \in TypeImplementationChoices
    /\ relationship_impls \in RelationshipImplementationChoices
    /\ NoWorkflows
    /\ NoFunctions

SpecImplementations == InitImplementations /\ [][NextParse]_vars

\* no workflow, or the workflow w1
OneWorkflowChoices == {w \in WorkflowChoices : DOMAIN w \subseteq {<<"w1">>}}

\* blueprints that vary the two pools of implementations and the workflow
InitImplementationsAndWorkflows ==
    /\ InitPlan({<<"hp">>}, <<{HOST_TYPE}, {"app"}, {"app"}>>,
                <<{EmptyDict}, {EmptyDict}, {EmptyDict}>>,
                <<{}, InstancesToImplement, {}>>)
    /\ type_impls \in TypeImplementationChoices
    /\ relationship_impls \in RelationshipImplementationChoices
    /\ workflows \in OneWorkflowChoices
    /\ NoFunctions

SpecImplementationsAndWorkflows ==
    InitImplementationsAndWorkflows /\ [][NextParse]_vars

-----------------------------------------------------------------------------
(* Imports: _combine_imports, _build_ordered_imports_list and the version
   check of _parse.  A document is a dict from its top-level keys to their
   values; an entry of imports is the url _get_resource_location resolved it
   to. *)

VERSION == "tosca_definitions_version"
IMPORTS == "imports"
NODE_TEMPLATES == "node_templates"
NODE_TYPES == "node_types"
TYPE_IMPLEMENTATIONS == "type_implementations"
PLUGINS == "plugins"
INTERFACES == "interfaces"
WORKFLOWS == "workflows"
RELATIONSHIPS == "relationships"
RELATIONSHIP_IMPLEMENTATIONS == "relationship_implementations"
POLICY_TRIGGERS == "policy_triggers"
POLICY_TYPES == "policy_types"
GROUPS == "groups"
INPUTS == "inputs"
OUTPUTS == "outputs"

SUPPORTED_VERSIONS == {"cloudify_dsl_1_0"}

MissingVersionErrorCode == 27
ImportedVersionErrorCode == 28
UnsupportedVersionErrorCode == 29
NonMergeableErrorCode == 3
MergeConflictErrorCode == 4
ImportFailedErrorCode == 13

merge_no_override ==
    {INTERFACES, NODE_TYPES, PLUGINS, WORKFLOWS, TYPE_IMPLEMENTATIONS,
     RELATIONSHIPS, RELATIONSHIP_IMPLEMENTATIONS, POLICY_TYPES, GROUPS,
     POLICY_TRIGGERS}

\* the exception of lines 1421-1425 and 1434-1438
ImportError(failed_import) ==
    [type |-> "DSLParsingLogicException", code |-> ImportFailedErrorCode,
     failed_import |-> failed_import]

\* del dict[key]
DictWithout(dict, key) == [k \in DOMAIN dict \ {key} |-> dict[k]]

SeqRange(seq) == {seq[i] : i \in 1..Len(seq)}

\* _build_ordered_imports_list_recursive: acc holds the list built so far and
\* the exception raised, if any
RECURSIVE BuildOrderedImportsListRecursive(_, _, _, _)
RECURSIVE ImportsLoop(_, _, _, _)
\* lines 1415-1438 from the entry at position i of an imports section
ImportsLoop(acc, imports_section, i, documents_) ==
    IF i > Len(imports_section) \/ acc.raised THEN acc
    ELSE ImportsLoop(
             IF imports_section[i] \in SeqRange(acc.list) THEN acc
             ELSE IF imports_section[i] \notin DOMAIN documents_
             THEN [acc EXCEPT !.raised = TRUE,
                              !.error = ImportError(imports_section[i])]
             ELSE BuildOrderedImportsListRecursive(
                      acc, documents_[imports_section[i]], imports_section[i],
                      documents_),
             imports_section, i + 1, documents_)

\* line 1410 putting the url in front of the list
WithCurrentImportInFront(acc, current_import) ==
    IF current_import # NoLocation
    THEN [acc EXCEPT !.list = <<current_import>> \o @]
    ELSE acc

\* lines 1409-1410
WithCurrentImport(acc, current_import) ==
    IF current_import # NoLocation
    THEN [acc EXCEPT !.list = Append(@, current_import)]
    ELSE acc

BuildOrderedImportsListRecursive(acc, parsed_dsl_, current_import, documents_) ==
    IF IMPORTS \notin DOMAIN parsed_dsl_
    THEN WithCurrentImport(acc, current_import)
    ELSE ImportsLoop(WithCurrentImport(acc, current_import),
                     parsed_dsl_[IMPORTS], 1, documents_)

\* _build_ordered_imports_list on an empty list
BuildOrderedImportsList(parsed_dsl_, current_import, documents_) ==
    BuildOrderedImportsListRecursive(
        [raised |-> FALSE, error |-> NoError, list |-> <<>>],
        parsed_dsl_, current_import, documents_)

\* _merge_into_dict_or_throw_on_duplicate that lets the imported entry win
MergeIntoDictOverriding(from_dict, to_dict) ==
    [raised |-> FALSE, dict |-> DictUpdate(to_dict, from_dict)]

\* _merge_into_dict_or_throw_on_duplicate: the merged dict, or raised when a
\* key of from_dict is in to_dict
MergeIntoDictOrThrowOnDuplicate(from_dict, to_dict) ==
    IF DOMAIN from_dict \cap DOMAIN to_dict # {}
    THEN [raised |-> TRUE, dict |-> to_dict]
    ELSE [raised |-> FALSE, dict |-> DictUpdate(to_dict, from_dict)]

\* lines 1317-1346 for one key of an imported document, given the merge of its
\* value into the combined one
MergeKey(acc, key, value, merged) ==
    IF key = IMPORTS THEN acc
    ELSE IF key \notin DOMAIN acc.combined
    THEN [acc EXCEPT !.combined = DictWith(@, key, value)]
    ELSE IF key \in merge_no_override
    THEN IF merged.raised
         THEN [acc EXCEPT !.raised = TRUE,
                          !.error = LogicError(MergeConflictErrorCode)]
         ELSE [acc EXCEPT !.combined = DictWith(@, key, merged.dict)]
    ELSE [acc EXCEPT !.raised = TRUE,
                     !.error = LogicError(NonMergeableErrorCode)]

\* the loop of line 1317 over the keys of an imported document, in the order
\* keys
RECURSIVE MergeKeysLoop(_, _, _, _)
MergeKeysLoop(acc, parsed_imported_dsl, keys, i) ==
    IF i > Len(keys) \/ acc.raised THEN acc
    ELSE MergeKeysLoop(
             MergeKey(acc, keys[i], parsed_imported_dsl[keys[i]],
                      MergeIntoDictOrThrowOnDuplicate(
                          parsed_imported_dsl[keys[i]],
                          GetDictProp(acc.combined, keys[i]))),
             parsed_imported_dsl, keys, i + 1)

\* lines 1300-1346 without the comparison of the versions
MergeImportedDslAnyVersion(combined, parsed_imported_dsl, dsl_version, keys) ==
    MergeKeysLoop([raised |-> FALSE, error |-> NoError, combined |-> combined],
                  DictWithout(parsed_imported_dsl, VERSION), keys, 1)

\* lines 1300-1346 for one imported document
MergeImportedDsl(combined, parsed_imported_dsl, dsl_version, keys) ==
    IF /\ VERSION \in DOMAIN parsed_imported_dsl
       /\ parsed_imported_dsl[VERSION] # dsl_version
    THEN [raised |-> TRUE, error |-> LogicError(ImportedVersionErrorCode),
          combined |-> combined]
    ELSE MergeKeysLoop([raised |-> FALSE, error |-> NoError, combined |-> combined],
                       DictWithout(parsed_imported_dsl, VERSION), keys, 1)

\* _validate_dsl_schema and _validate_imports_section: the documents of the
\* checked blueprints are well-formed
SchemaValid(parsed_dsl_) == NODE_TEMPLATES \in DOMAIN parsed_dsl_

\* lines 201-203: _process_plugin on every declared plugin, each with a legal
\* executor and a source
ProcessPlugins(plugins_) ==
    [name \in DOMAIN plugins_ |-> ProcessedPlugin(name, plugins_[name].executor)]

\* lines 1263-1281: the copy of the root, the version it must declare, and the
\* ordered list of what it imports
CombineImportsStart ==
    /\ pc = "combine_imports"
    /\ combined_parsed_dsl' = parsed_dsl
    /\ IF VERSION \notin DOMAIN parsed_dsl
       THEN /\ Fail(LogicError(MissingVersionErrorCode))
            /\ UNCHANGED ordered_imports_list
       ELSE IF IMPORTS \notin DOMAIN parsed_dsl
       THEN /\ pc' = "validate_schema"
            /\ UNCHANGED <<error, ordered_imports_list>>
       ELSE \E built \in {BuildOrderedImportsList(parsed_dsl, dsl_location,
                                                 documents)} :
               /\ ordered_imports_list' = built.list
               /\ IF built.raised
                  THEN Fail(built.error)
                  ELSE pc' = "strip_root" /\ UNCHANGED error
    /\ UNCHANGED <<output_vars, resolver_vars, function_vars, documents, parsed_dsl, dsl_location, import_index,
                   plugins, resource_base, resources, binder_vars,
                   node_types, relationships, top_level_relationships,
                   node_templates, type_impls, relationship_impls,
                   processed_nodes, node_index, workflow_vars>>

\* lines 1282-1283: the root's own url is not merged
StripRootLocation ==
    /\ pc = "strip_root"
    /\ ordered_imports_list' = IF dsl_location # NoLocation
                               THEN Tail(ordered_imports_list)
                               ELSE ordered_imports_list
    /\ import_index' = 1
    /\ pc' = "merge_imports"
    /\ UNCHANGED <<output_vars, resolver_vars, function_vars, documents, parsed_dsl, dsl_location, combined_parsed_dsl,
                   plugins, resource_base, resources, binder_vars, plan_vars,
                   workflow_vars>>

\* lines 1285-1346: the next document of the list is read and folded into the
\* combined one
MergeImport ==
    /\ pc = "merge_imports"
    /\ import_index <= Len(ordered_imports_list)
    /\ \E single_import \in {ordered_imports_list[import_index]} :
       \E keys \in Orders(DOMAIN documents[single_import] \ {VERSION}) :
       \E merged \in {MergeImportedDsl(combined_parsed_dsl,
                          documents[single_import], parsed_dsl[VERSION], keys)} :
          IF merged.raised
          THEN /\ Fail(merged.error)
               /\ UNCHANGED <<combined_parsed_dsl, import_index>>
          ELSE /\ combined_parsed_dsl' = merged.combined
               /\ import_index' = import_index + 1
               /\ UNCHANGED <<pc, error>>
    /\ UNCHANGED <<output_vars, resolver_vars, function_vars, documents, parsed_dsl, dsl_location, ordered_imports_list,
                   plugins, resource_base, resources, binder_vars,
                   node_types, relationships, top_level_relationships,
                   node_templates, type_impls, relationship_impls,
                   processed_nodes, node_index, workflow_vars>>

\* lines 1348-1351: the imports section leaves the combined document
FinishCombineImports ==
    /\ pc = "merge_imports"
    /\ import_index > Len(ordered_imports_list)
    /\ combined_parsed_dsl' = DictWithout(combined_parsed_dsl, IMPORTS)
    /\ pc' = "validate_schema"
    /\ UNCHANGED <<output_vars, resolver_vars, function_vars, documents, parsed_dsl, dsl_location, ordered_imports_list,
                   import_index, plugins, resource_base, resources, binder_vars,
                   plan_vars, workflow_vars>>

\* lines 179-203 of _parse but the call of _process_relationships: the schema,
\* the supported versions, and the sections the compile reads
ReadCombinedDsl ==
    /\ pc = "validate_schema"
    /\ SchemaValid(combined_parsed_dsl)
    /\ IF combined_parsed_dsl[VERSION] \notin SUPPORTED_VERSIONS
       THEN /\ Fail(LogicError(UnsupportedVersionErrorCode))
            /\ UNCHANGED <<node_templates, node_types, relationships, type_impls,
                           relationship_impls, plugins, workflows>>
       ELSE /\ node_templates' = combined_parsed_dsl[NODE_TEMPLATES]
            /\ node_types' = GetDictProp(combined_parsed_dsl, NODE_TYPES)
            /\ relationships' = GetDictProp(combined_parsed_dsl, RELATIONSHIPS)
            /\ type_impls' = GetDictProp(combined_parsed_dsl, TYPE_IMPLEMENTATIONS)
            /\ relationship_impls' =
                   GetDictProp(combined_parsed_dsl, RELATIONSHIP_IMPLEMENTATIONS)
            /\ plugins' = ProcessPlugins(GetDictProp(combined_parsed_dsl, PLUGINS))
            /\ workflows' = GetDictProp(combined_parsed_dsl, WORKFLOWS)
            /\ pc' = "process_relationships"
            /\ UNCHANGED error
    /\ UNCHANGED <<output_vars, resolver_vars, function_vars, import_vars, resource_base, resources, binder_vars,
                   top_level_relationships, processed_nodes, node_index,
                   processed_workflows, workflow_plugins_to_install,
                   deployment_plugins_to_install>>

NextCombine ==
    \/ CombineImportsStart
    \/ StripRootLocation
    \/ MergeImport
    \/ FinishCombineImports
    \/ ReadCombinedDsl

\* _parse from the root document on
NextCompile == NextCombine \/ NextParse

\* a document of the given sections; each argument holds the value of a key,
\* or nothing when the document has no such key
OptionalKey(dict, key, value) ==
    IF Len(value) = 0 THEN dict ELSE DictWith(dict, key, value[1])

Document(version, imports_section, templates, types, inputs) ==
    OptionalKey(OptionalKey(OptionalKey(OptionalKey(OptionalKey(
        EmptyDict, VERSION, version), IMPORTS, imports_section),
        NODE_TEMPLATES, templates), NODE_TYPES, types), INPUTS, inputs)

\* the state of _parse at the call of _combine_imports
InitCompile ==
    /\ NoFunctions
    /\ NoResolver
    /\ NoOutputs
    /\ plugins = EmptyDict
    /\ resource_base = IF dsl_location = NoLocation THEN "" ELSE "file:/blueprint"
    /\ resources = {}
    /\ operation_name = <<"start">>
    /\ operation_content = StrOperation(EmptyStr)
    /\ op_descriptor = NotCalled
    /\ node_types = EmptyDict
    /\ relationships = EmptyDict
    /\ top_level_relationships = EmptyDict
    /\ node_templates = EmptyDict
    /\ type_impls = EmptyDict
    /\ relationship_impls = EmptyDict
    /\ processed_nodes = <<>>
    /\ node_index = 0
    /\ error = NoError
    /\ workflows = EmptyDict
    /\ processed_workflows = EmptyDict
    /\ workflow_plugins_to_install = <<>>
    /\ deployment_plugins_to_install = <<>>
    /\ ordered_imports_list = <<>>
    /\ import_index = 0
    /\ combined_parsed_dsl = EmptyDict
    /\ pc = "combine_imports"

OneTemplate(name) == [n \in {name} |-> NodeTemplate("app", EmptyDict, <<>>)]

TypesNamed(names) == [t \in names |-> PlanNodeTypes[t]]

OneInput(name, origin) == [n \in {name} |-> origin]

Versions == {<<>>, <<"cloudify_dsl_1_0">>, <<"cloudify_dsl_0_9">>}

\* the root at url r imports a, or a and b; the documents differ in their
\* versions and in the sections they hold
InitImports ==
    /\ dsl_location = "r"
    /\ \E version \in Versions :
       \E imports_section \in {<<>>, << <<"a">> >>, << <<"a", "b">> >>} :
       \E types \in {<<>>, <<TypesNamed({"app"})>>} :
       \E inputs \in {<<>>, <<OneInput("x", "r")>>} :
          parsed_dsl = Document(version, imports_section, <<OneTemplate("n1")>>,
                                types, inputs)
    /\ \E version_a \in Versions :
       \E templates_a \in {<<>>, <<OneTemplate("n2")>>} :
       \E types_a \in {<<>>, <<TypesNamed({"app"})>>,
                       <<TypesNamed({"vm", HOST_TYPE})>>} :
       \E inputs_a \in {<<>>, <<OneInput("y", "a")>>} :
       \E version_b \in {<<>>, <<"cloudify_dsl_1_0">>} :
       \E types_b \in {<<>>, <<TypesNamed({"app"})>>} :
          documents =
             [url \in {"r", "a", "b"} |->
                 IF url = "r" THEN parsed_dsl
                 ELSE IF url = "a"
                 THEN Document(version_a, <<>>, templates_a, types_a, inputs_a)
                 ELSE Document(version_b, <<>>, <<>>, types_b, <<>>)]
    /\ InitCompile

SpecImports == InitImports /\ [][NextCompile]_vars

\* the imports sections a document may hold: up to two of the urls
ImportsSections(urls) ==
    {<<>>} \cup { <<section>> : section \in SeqsOfLen(urls, 1) \cup SeqsOfLen(urls, 2)}

\* import graphs over the root r and the documents a and b, with cycles,
\* diamonds, and m, a url that cannot be opened
InitImportGraphs ==
    /\ dsl_location \in {"r", NoLocation}
    /\ \E imports_r \in ImportsSections({"a", "b", "r"}) :
          parsed_dsl = Document(<<"cloudify_dsl_1_0">>, imports_r,
                                <<OneTemplate("n1")>>, <<TypesNamed({"app"})>>, <<>>)
    /\ \E imports_a \in ImportsSections({"a", "b", "r"}) \cup {<< <<"m">> >>} :
       \E imports_b \in {<<>>, << <<"a">> >>, << <<"b">> >>, << <<"r">> >>} :
          documents =
             [url \in {"r", "a", "b"} |->
                 IF url = "r" THEN parsed_dsl
                 ELSE IF url = "a" THEN Document(<<>>, imports_a, <<>>, <<>>, <<>>)
                 ELSE Document(<<>>, imports_b, <<>>, <<>>, <<>>)]
    /\ InitCompile

SpecImportGraphs == InitImportGraphs /\ [][NextCompile]_vars

\* an interface with the operations of names, each mapped to a task of hp
InterfaceWith(names) == [o \in names |-> StrOperation(<<"hp", ".", "run">>)]

\* the interfaces i, j and k, each with the operations chosen for it, or absent
\* when none is chosen
InterfacesWith(names_i, names_j, names_k) ==
    [n \in {name \in {<<"i">>, <<"j">>, <<"k">>} :
               (IF name = <<"i">> THEN names_i
                ELSE IF name = <<"j">> THEN names_j ELSE names_k) # {}} |->
        InterfaceWith(IF n = <<"i">> THEN names_i
                      ELSE IF n = <<"j">> THEN names_j ELSE names_k)]

\* node templates with up to three interfaces that share operation names; j may
\* hold an operation whose name is the long name of an operation of i
OperationInterfaceChoices ==
    {InterfacesWith(names_i, names_j, names_k) :
        names_i \in SUBSET {<<"x">>, <<"y">>},
        names_j \in SUBSET {<<"x">>, <<"i", ".", "x">>},
        names_k \in SUBSET {<<"x">>, <<"y">>}}

\* the interfaces i and j of n1, i mapped to a task of hp and j to a task that
\* starts with the names of both plugins
TwoPluginInterfaceChoices ==
    {[n \in {name \in {<<"i">>, <<"j">>} :
                (IF name = <<"i">> THEN names_i ELSE names_j) # {}} |->
         IF n = <<"i">>
         THEN [o \in names_i |-> StrOperation(<<"hp", ".", "run">>)]
         ELSE [o \in names_j |-> StrOperation(<<"hp", ".", "x", ".", "run">>)]] :
        names_i \in SUBSET {<<"x">>, <<"y">>},
        names_j \in SUBSET {<<"x">>, <<"y">>, <<"i", ".", "x">>}}

\* blueprints of two plugins, the name of one a prefix of the other's, that
\* vary the interfaces of n1 and n2
InitBindingOrders ==
    /\ InitPlan({<<"hp">>, <<"hp", ".", "x">>}, <<{HOST_TYPE}, {"app"}, {"app"}>>,
                <<TwoPluginInterfaceChoices, TwoPluginInterfaceChoices, {EmptyDict}>>,
                <<{}, {}, {}>>)
    /\ NoImplementations
    /\ NoWorkflows
    /\ NoFunctions

SpecBindingOrders == InitBindingOrders /\ [][NextParse]_vars

\* the source and target interfaces of a relationship instance: none, or one
\* operation of the host-agent plugin hp or of the central plugin cp
RelationshipInterfaceChoices ==
    LET establish(plugin_name) ==
            OneOperation(<<"lifecycle">>, <<"establish">>, plugin_name \o <<".", "run">>)
    IN  {<<EmptyDict, EmptyDict>>, <<establish(<<"hp">>), EmptyDict>>,
         <<EmptyDict, establish(<<"hp">>)>>, <<establish(<<"cp">>), establish(<<"hp">>)>>,
         <<EmptyDict, establish(<<"cp">>)>>}

\* relationship instances of the given types to the given targets with
\* operations
InstancesWithOperations(types, targets) ==
    {RelationshipInstance(type, target, interfaces[1], interfaces[2]) :
        type \in types, target \in targets,
        interfaces \in RelationshipInterfaceChoices}

\* blueprints of a host n1 and two nodes whose plugins come from the
\* operations of their relationships only
InitRelationshipPlugins ==
    /\ InitPlan({<<"hp">>, <<"cp">>}, <<{"vm"}, {"app"}, {"app"}>>,
                <<{EmptyDict}, {EmptyDict}, {EmptyDict}>>,
                <<{},
                  InstancesWithOperations(
                      {CONTAINED_IN_REL_TYPE, CONNECTED_TO_REL_TYPE}, {"n1", "n3"}),
                  InstancesWithOperations({CONTAINED_IN_REL_TYPE}, {"n1"})
                      \cup InstancesWithOperations({CONNECTED_TO_REL_TYPE}, {"n2"})>>)
    /\ NoImplementations
    /\ NoWorkflows
    /\ NoFunctions

SpecRelationshipPlugins == InitRelationshipPlugins /\ [][NextParse]_vars

\* blueprints that vary the interfaces of n1
InitOperations ==
    /\ InitPlan({<<"hp">>}, <<{HOST_TYPE}, {"app"}, {"app"}>>,
                <<OperationInterfaceChoices, {EmptyDict}, {EmptyDict}>>,
                <<{}, {}, {}>>)
    /\ NoImplementations
    /\ NoWorkflows
    /\ NoFunctions

SpecOperations == InitOperations /\ [][NextParse]_vars

GetPropertyOf(node_name, property) ==
    RawFunction(GET_PROPERTY_FUNCTION, <<node_name, property>>)

\* the properties the checked blueprints give to n1 and n2
CheckedProperties == {<<"n1", "x">>, <<"n1", "y">>, <<"n2", "x">>}

\* the values of a property: a string, a get_input, a get_property of any
\* checked property, or a mapping or list of two leaves
PropertyValueChoices ==
    {Scalar(Str("v")), Scalar(RawFunction(GET_INPUT_FUNCTION, <<"i">>))}
    \cup {Scalar(GetPropertyOf(k[1], k[2])) : k \in CheckedProperties}
    \cup {ContainerOf(<<GetPropertyOf("n1", "y"), GetPropertyOf("n1", "y")>>),
          ContainerOf(<<GetPropertyOf("n1", "y"), GetPropertyOf("n2", "x")>>),
          ContainerOf(<<Str("v"), GetPropertyOf("n1", "x")>>),
          ContainerOf(<<RawFunction(GET_INPUT_FUNCTION, <<"i">>), Str("v")>>)}

\* a template of the given type and properties, without interfaces and
\* relationships
TemplateWithProperties(type, properties) ==
    DictWith(NodeTemplate(type, EmptyDict, <<>>), PROPERTIES, properties)

\* a node type with a properties schema
TypeWithProperties(has_derived_from, derived_from, properties) ==
    DictWith(NodeType(has_derived_from, derived_from), PROPERTIES, properties)

\* the state of _parse before _process_relationships, for a blueprint of the
\* given node types and node templates that declares the plugin hp and no
\* workflows
InitBlueprint(node_types_choices, node_templates_choices) ==
    /\ plugins = [n \in {<<"hp">>} |-> PlanPlugin(n)]
    /\ resource_base = ""
    /\ resources = {}
    /\ operation_name = <<"start">>
    /\ operation_content = StrOperation(EmptyStr)
    /\ op_descriptor = NotCalled
    /\ node_types \in node_types_choices
    /\ relationships = PlanRelationshipTypes
    /\ top_level_relationships = EmptyDict
    /\ node_templates \in node_templates_choices
    /\ processed_nodes = <<>>
    /\ node_index = 0
    /\ error = NoError
    /\ processed_workflows = EmptyDict
    /\ workflow_plugins_to_install = <<>>
    /\ deployment_plugins_to_install = <<>>
    /\ pc = "process_relationships"
    /\ NoImports
    /\ NoResolver
    /\ NoOutputs
    /\ NoFunctions
    /\ NoWorkflows

\* the schemas of the checked properties: every property has a default
FunctionNodeTypes ==
    [t \in {HOST_TYPE, "app"} |->
        TypeWithProperties(FALSE, "",
            [p \in (IF t = HOST_TYPE THEN {"x", "y"} ELSE {"x"}) |->
                WithDefault(Scalar(Str("v")))])]

\* blueprints that vary the properties of n1 and n2
FunctionNodeTemplates ==
    {[n \in {"n1", "n2", "n3"} |->
         IF n = "n1"
         THEN TemplateWithProperties(HOST_TYPE,
                  [p \in {"x", "y"} |-> IF p = "x" THEN n1_x ELSE n1_y])
         ELSE IF n = "n2"
         THEN TemplateWithProperties("app", [p \in {"x"} |-> n2_x])
         ELSE NodeTemplate("app", EmptyDict, <<>>)] :
        n1_x \in PropertyValueChoices, n1_y \in PropertyValueChoices,
        n2_x \in PropertyValueChoices}

InitFunctions ==
    /\ InitBlueprint({FunctionNodeTypes}, FunctionNodeTemplates)
    /\ NoImplementations

SpecFunctions == InitFunctions /\ [][NextParse]_vars

\* node types no node uses: one that derives from a type that is not declared,
\* one that derives from itself, two that derive from each other
UnusedNodeTypeChoices ==
    {EmptyDict,
     [t \in {"orphan"} |-> NodeType(TRUE, "nosuch")],
     [t \in {"loop"} |-> NodeType(TRUE, "loop")],
     [t \in {"ping", "pong"} |->
         NodeType(TRUE, IF t = "ping" THEN "pong" ELSE "ping")],
     [t \in {"orphan", "loop"} |->
         NodeType(TRUE, IF t = "orphan" THEN "nosuch" ELSE "loop")]}

PostProcessNodeTypes ==
    {[t \in DOMAIN PlanNodeTypes \cup DOMAIN unused |->
         IF t \in DOMAIN unused THEN unused[t] ELSE PlanNodeTypes[t]] :
        unused \in UnusedNodeTypeChoices}

\* three nodes, each a host or not and contained in at most one other node
PostProcessNodeTemplates ==
    {[n \in {"n1", "n2", "n3"} |->
         NodeTemplate(type[n], EmptyDict,
                      IF target[n] = n THEN <<>>
                      ELSE <<RelationshipInstance(CONTAINED_IN_REL_TYPE, target[n],
                                                  EmptyDict, EmptyDict)>>)] :
        type \in [{"n1", "n2", "n3"} -> {"vm", "app"}],
        target \in [{"n1", "n2", "n3"} -> {"n1", "n2", "n3"}]}

InitPostProcess ==
    /\ InitBlueprint(PostProcessNodeTypes, PostProcessNodeTemplates)
    /\ NoImplementations

SpecPostProcess == InitPostProcess /\ [][NextParse]_vars

\* the dicts that hold, under each key of keys, one of the entries of
\* choices[key] or nothing
RECURSIVE DictsOfChoices(_, _)
DictsOfChoices(keys, choices) ==
    IF keys = {} THEN {EmptyDict}
    ELSE LET k == CHOOSE key \in keys : TRUE
             rest == DictsOfChoices(keys \ {k}, choices)
         IN  rest \cup {DictWith(d, k, e) : d \in rest, e \in choices[k]}

SchemaEntryChoices == {Mandatory, WithDefault(Scalar(Str("d")))}

\* the schemas of the host type over a and cloudify_runtime, of app, which
\* derives from it, over a and b (with another default), and of sub, which
\* derives from app and adds c
PropertyNodeTypes ==
    {[t \in {HOST_TYPE, "app", "sub"} |->
         IF t = HOST_TYPE THEN TypeWithProperties(FALSE, "", host_schema)
         ELSE IF t = "app" THEN TypeWithProperties(TRUE, HOST_TYPE, app_schema)
         ELSE TypeWithProperties(TRUE, "app",
                  [k \in {"c"} |-> WithDefault(Scalar(Str("s")))])] :
        host_schema \in DictsOfChoices({"a", "cloudify_runtime"},
                            [k \in {"a", "cloudify_runtime"} |-> SchemaEntryChoices]),
        app_schema \in DictsOfChoices({"a", "b"},
                           [k \in {"a", "b"} |->
                               {Mandatory, WithDefault(Scalar(Str("e")))}])}

\* the node n1 of type app with values for some of a, b, c and
\* cloudify_runtime
PropertyNodeTemplates ==
    {[n \in {"n1"} |-> TemplateWithProperties("app", values)] :
        values \in DictsOfChoices({"a", "b", "c", "cloudify_runtime"},
                       [k \in {"a", "b", "c", "cloudify_runtime"} |->
                           {Scalar(Str("v"))}])}

\* no implementation, or one of type sub for n1, without properties or with
\* values for some of a, b and c
PropertyImplementationChoices ==
    {EmptyDict, [i \in {"i1"} |-> TypeImplementation("sub", "n1")]}
    \cup {[i \in {"i1"} |-> DictWith(TypeImplementation("sub", "n1"), PROPERTIES,
                                     values)] :
             values \in DictsOfChoices({"a", "b", "c"},
                            [k \in {"a", "b", "c"} |-> {Scalar(Str("o"))}])}

InitProperties ==
    /\ InitBlueprint(PropertyNodeTypes, PropertyNodeTemplates)
    /\ type_impls \in PropertyImplementationChoices
    /\ relationship_impls = EmptyDict

SpecProperties == InitProperties /\ [][NextParse]_vars

-----------------------------------------------------------------------------
(* Resource resolution: _get_resource_location and its callers
   _dsl_location_to_url and _apply_ref.  A name or url is a sequence of tokens;
   "/" and the schemes are tokens of their own. *)

DslLocationErrorCode == 30

RefErrorCode == 31

UrlSchemes == {"http:", "https:", "file:", "ftp:"}

\* bool(x) of a string or None
Truthy(x) == x # None /\ x # EmptyStr

\* _apply_alias_mapping_if_available
ApplyAliasMappingIfAvailable(name, alias_mapping_) ==
    IF name \in DOMAIN alias_mapping_ THEN alias_mapping_[name] ELSE name

\* s.rfind('/') + 1
RFindSlash(s) ==
    IF \E i \in 1..Len(s) : s[i] = "/"
    THEN CHOOSE i \in 1..Len(s) : s[i] = "/" /\ \A j \in (i + 1)..Len(s) : s[j] # "/"
    ELSE 0

\* os.path.abspath: a relative name is joined to the working directory
AbsPath(name) ==
    IF StartsWith(name, <<"/">>) THEN name ELSE <<"/", "cwd", "/">> \o name

\* pathname2url: the characters that a url cannot hold are quoted
PathnameToUrl(path) == [i \in 1..Len(path) |-> IF path[i] = " " THEN "%20" ELSE path[i]]

\* _validate_url_exists: urlopen opens the url, or raises URLError
ValidateUrlExists(url, open_urls_) == url \in open_urls_

\* lines 1388-1392
CandidateUrl(resource_name_, current_resource_context) ==
    SubSeq(current_resource_context, 1, RFindSlash(current_resource_context))
        \o resource_name_

\* _get_resource_location with the base url tried before the context
GetResourceLocationBaseFirst(resource_name_, resources_base_url_, current_resource_context, local_files_, open_urls_) ==
    IF \E scheme \in UrlSchemes : StartsWith(resource_name_, <<scheme>>)
    THEN resource_name_
    ELSE IF resource_name_ \in local_files_
    THEN <<"file:">> \o PathnameToUrl(AbsPath(resource_name_))
    ELSE IF Truthy(resources_base_url_)
    THEN resources_base_url_ \o resource_name_
    ELSE IF /\ Truthy(current_resource_context)
            /\ ValidateUrlExists(CandidateUrl(resource_name_, current_resource_context),
                                 open_urls_)
    THEN CandidateUrl(resource_name_, current_resource_context)
    ELSE None

\* _get_resource_location
GetResourceLocation(resource_name_, resources_base_url_, current_resource_context, local_files_, open_urls_) ==
    IF \E scheme \in UrlSchemes : StartsWith(resource_name_, <<scheme>>)
    THEN resource_name_
    ELSE IF resource_name_ \in local_files_
    THEN <<"file:">> \o PathnameToUrl(AbsPath(resource_name_))
    ELSE IF /\ Truthy(current_resource_context)
            /\ ValidateUrlExists(CandidateUrl(resource_name_, current_resource_context),
                                 open_urls_)
    THEN CandidateUrl(resource_name_, current_resource_context)
    ELSE IF Truthy(resources_base_url_)
    THEN resources_base_url_ \o resource_name_
    ELSE None

\* lines 115-122: the exception is built after dsl_location was assigned the
\* result of _get_resource_location
DslLocationError(dsl_location_) ==
    [type |-> "DSLParsingLogicException", code |-> DslLocationErrorCode,
     failed_import |-> dsl_location_, message_names |-> <<dsl_location_>>]

\* lines 1203-1205 and 1209-1212: the message names the ref, and the url that
\* was searched if there is one
RefError(message_names) ==
    [type |-> "DSLParsingLogicException", code |-> RefErrorCode,
     failed_import |-> None, message_names |-> message_names]

\* _dsl_location_to_url on the location a caller of _parse gave
DslLocationToUrl ==
    /\ pc = "resolve"
    /\ \E dsl_location_ \in {ApplyAliasMappingIfAvailable(logical_name,
                                                          alias_mapping)} :
          IF dsl_location_ = None
          THEN /\ resource_location' = None
               /\ pc' = "located"
               /\ UNCHANGED error
          ELSE \E location \in {GetResourceLocation(dsl_location_,
                                     resources_base_url, None, local_files,
                                     open_urls)} :
                  /\ resource_location' = location
                  /\ IF location = None
                     THEN Fail(DslLocationError(location))
                     ELSE pc' = "located" /\ UNCHANGED error
    /\ UNCHANGED <<alias_mapping, resources_base_url, logical_name, path_context,
                   local_files, open_urls, output_vars, function_vars, import_vars, plugins,
                   resource_base, resources, binder_vars, node_types,
                   relationships, top_level_relationships, node_templates,
                   type_impls, relationship_impls, processed_nodes, node_index,
                   workflow_vars>>

\* _apply_ref on a ref of the document at path_context
ApplyRef ==
    /\ pc = "resolve"
    /\ logical_name # None
    /\ \E filename \in {ApplyAliasMappingIfAvailable(logical_name, alias_mapping)} :
       \E ref_url \in {GetResourceLocation(filename, resources_base_url,
                            path_context, local_files, open_urls)} :
          /\ resource_location' = ref_url
          /\ IF ~Truthy(ref_url)
             THEN Fail(RefError(<<filename>>))
             ELSE IF ref_url \notin open_urls
             THEN Fail(RefError(<<filename, ref_url>>))
             ELSE pc' = "ref_read" /\ UNCHANGED error
    /\ UNCHANGED <<alias_mapping, resources_base_url, logical_name, path_context,
                   local_files, open_urls, output_vars, function_vars, import_vars, plugins,
                   resource_base, resources, binder_vars, node_types,
                   relationships, top_level_relationships, node_templates,
                   type_impls, relationship_impls, processed_nodes, node_index,
                   workflow_vars>>

NextResolver == DslLocationToUrl \/ ApplyRef

\* the names that are resolved: a url, relative names, a name with a space, a
\* name with a scheme that is no url scheme, an alias
ResolvedNames ==
    {<<"http:", "/", "h", "/", "a">>, <<"a">>, <<"d", "/", "a">>, <<"my", " ", "a">>,
     <<"httpx:", "a">>, <<"al">>}

AliasMappingChoices ==
    {EmptyDict, [k \in {<<"al">>} |-> <<"a">>],
     [k \in {<<"al">>, <<"a">>} |-> IF k = <<"al">> THEN <<"a">> ELSE <<"d", "/", "a">>]}

BaseUrlChoices == {None, EmptyStr, <<"http:", "/", "base", "/">>}

\* the url of the document that holds the ref, or None for a document that was
\* given as a string
PathContextChoices ==
    {None, <<"file:", "/", "d", "/", "r">>, <<"http:", "/", "h", "/", "sub", "/", "r">>}

InitResolver ==
    /\ alias_mapping \in AliasMappingChoices
    /\ resources_base_url \in BaseUrlChoices
    /\ logical_name \in ResolvedNames
    /\ path_context \in PathContextChoices
    /\ local_files \in SUBSET {<<"a">>, <<"my", " ", "a">>}
    /\ open_urls \in SUBSET {<<"file:", "/", "d", "/", "a">>,
                              <<"http:", "/", "h", "/", "sub", "/", "a">>,
                              <<"http:", "/", "base", "/", "a">>,
                              <<"http:", "/", "h", "/", "a">>}
    /\ resource_location = None
    /\ plugins = EmptyDict
    /\ resource_base = ""
    /\ resources = {}
    /\ operation_name = <<"start">>
    /\ operation_content = StrOperation(EmptyStr)
    /\ op_descriptor = NotCalled
    /\ node_types = EmptyDict
    /\ relationships = EmptyDict
    /\ top_level_relationships = EmptyDict
    /\ node_templates = EmptyDict
    /\ processed_nodes = <<>>
    /\ node_index = 0
    /\ error = NoError
    /\ processed_workflows = EmptyDict
    /\ workflow_plugins_to_install = <<>>
    /\ deployment_plugins_to_install = <<>>
    /\ pc = "resolve"
    /\ NoImports
    /\ NoOutputs
    /\ NoFunctions
    /\ NoImplementations
    /\ NoWorkflows

SpecResolver == InitResolver /\ [][NextResolver]_vars

-----------------------------------------------------------------------------
(* Registered functions in the outputs of a plan: prepare_deployment_plan and
   functions.evaluate_outputs, with the class ToUpper that
   test_register_function.py registers.  A value is a string or a mapping of
   one key, [kind, name, args]: the string itself, or the key and what it
   holds (the elements of a list, or the one value). *)

GET_ATTRIBUTE_FUNCTION == "get_attribute"

StringValue(s) == [kind |-> "str", name |-> s, args |-> <<>>]

MappingValue(key, args) == [kind |-> "dict", name |-> key, args |-> args]

\* functions.parse(v) is an instance of Function: v is a mapping of one key
\* that names a function of the language or a registered one
ParsesAsFunction(v, registered_) ==
    /\ v.kind = "dict"
    /\ v.name \in {GET_PROPERTY_FUNCTION, GET_ATTRIBUTE_FUNCTION} \cup registered_

\* str.upper
StrUpper(s) ==
    CASE s = "first" -> "FIRST"
      [] s = "property_value" -> "PROPERTY_VALUE"
      [] s = "attribute_value" -> "ATTRIBUTE_VALUE"
      [] s = "Mixed_1" -> "MIXED_1"
      [] OTHER -> s

\* ToUpper.evaluate without the test of its argument
ToUpperEvaluateAnyArgument(raw, registered_) == StringValue(StrUpper(raw.args[1].name))

\* ToUpper.evaluate: the raw form while the argument is a function, else the
\* argument in upper case
ToUpperEvaluate(raw, registered_) ==
    IF ParsesAsFunction(raw.args[1], registered_) THEN raw
    ELSE StringValue(StrUpper(raw.args[1].name))

\* func.evaluate(plan) and func.evaluate_runtime(storage) of the instance that
\* v parses as: get_property reads the property of the node, get_attribute is
\* left for runtime and then reads the runtime properties of the node instance,
\* ToUpper.evaluate_runtime is ToUpper.evaluate
EvaluateFunction(v, evaluator, registered_, properties, runtime_properties_) ==
    IF v.name = GET_PROPERTY_FUNCTION
    THEN StringValue(properties[v.args[1].name][v.args[2].name])
    ELSE IF v.name = GET_ATTRIBUTE_FUNCTION
    THEN IF evaluator = "evaluate_runtime"
         THEN StringValue(runtime_properties_[v.args[2].name])
         ELSE v
    ELSE ToUpperEvaluate(v, registered_)

\* the handler of the evaluating scan: a function is evaluated, what it
\* returned is scanned, and it is evaluated again until it is no function or
\* it returns what it got
RECURSIVE EvaluationHandler(_, _, _, _, _, _)
EvaluationHandler(v, evaluator, scanned, registered_, properties, runtime_properties_) ==
    IF ~ParsesAsFunction(v, registered_)
    THEN IF v.kind = "dict" /\ ~scanned
         THEN [v EXCEPT !.args =
                  [i \in 1..Len(v.args) |->
                      EvaluationHandler(v.args[i], evaluator, FALSE, registered_,
                                        properties, runtime_properties_)]]
         ELSE v
    ELSE LET evaluated_value ==
                 EvaluateFunction(v, evaluator, registered_, properties,
                                  runtime_properties_)
         IN  IF scanned /\ evaluated_value = v THEN v
             ELSE EvaluationHandler(
                      IF evaluated_value.kind = "dict"
                      THEN [evaluated_value EXCEPT !.args =
                               [i \in 1..Len(evaluated_value.args) |->
                                   EvaluationHandler(evaluated_value.args[i],
                                       evaluator, FALSE, registered_, properties,
                                       runtime_properties_)]]
                      ELSE evaluated_value,
                      evaluator, TRUE, registered_, properties,
                      runtime_properties_)

\* the properties of the nodes as get_property reads them: strings
PlainProperties(node_properties_) ==
    [n \in DOMAIN node_properties_ |->
        [p \in DOMAIN node_properties_[n] |->
            node_properties_[n][p].items[1].args[1]]]

\* prepare_deployment_plan on the plan that parse returned
PrepareDeploymentPlan ==
    /\ pc = "parsed"
    /\ outputs' = [o \in DOMAIN outputs |->
                      EvaluationHandler(outputs[o], "evaluate", FALSE, registered,
                                        PlainProperties(node_properties),
                                        runtime_properties)]
    /\ pc' = "prepared"
    /\ UNCHANGED <<registered, runtime_properties, evaluated_outputs,
                   resolver_vars, function_vars, import_vars, plugins,
                   resource_base, resources, binder_vars, plan_vars,
                   workflow_vars>>

\* functions.evaluate_outputs on the outputs of the prepared plan
EvaluateOutputs ==
    /\ pc = "prepared"
    /\ evaluated_outputs' =
           [o \in DOMAIN outputs |->
               EvaluationHandler(outputs[o], "evaluate_runtime", FALSE, registered,
                                 PlainProperties(node_properties),
                                 runtime_properties)]
    /\ pc' = "evaluated"
    /\ UNCHANGED <<outputs, registered, runtime_properties, resolver_vars,
                   function_vars, import_vars, plugins, resource_base, resources,
                   binder_vars, plan_vars, workflow_vars>>

NextOutputs == PrepareDeploymentPlan \/ EvaluateOutputs

\* the values of the outputs: strings, to_upper of a string, of a get_property
\* and of a get_attribute, and the two functions of the language on their own
OutputValueChoices ==
    LET get_property == MappingValue(GET_PROPERTY_FUNCTION,
                            <<StringValue("webserver"), StringValue("property")>>)
        get_attribute == MappingValue(GET_ATTRIBUTE_FUNCTION,
                            <<StringValue("webserver"), StringValue("attribute")>>)
    IN  {StringValue("first"), get_property, get_attribute}
        \cup {MappingValue("to_upper", <<arg>>) :
                 arg \in {StringValue("first"), StringValue("Mixed_1"),
                          get_property, get_attribute}}

TextChoices == {"property_value", "attribute_value", "Mixed_1", "FIRST"}

InitOutputs ==
    /\ outputs \in [{"output1", "output2", "output3"} -> OutputValueChoices]
    /\ registered \in {{}, {"to_upper"}}
    /\ runtime_properties \in [{"attribute"} -> TextChoices]
    /\ evaluated_outputs = EmptyDict
    /\ \E text \in TextChoices :
          node_properties =
              [n \in {"webserver"} |-> [p \in {"property"} |-> Scalar(Str(text))]]
    /\ plugins = EmptyDict
    /\ resource_base = ""
    /\ resources = {}
    /\ operation_name = <<"start">>
    /\ operation_content = StrOperation(EmptyStr)
    /\ op_descriptor = NotCalled
    /\ node_types = EmptyDict
    /\ relationships = EmptyDict
    /\ top_level_relationships = EmptyDict
    /\ node_templates = EmptyDict
    /\ processed_nodes = <<>>
    /\ node_index = 0
    /\ error = NoError
    /\ processed_workflows = EmptyDict
    /\ workflow_plugins_to_install = <<>>
    /\ deployment_plugins_to_install = <<>>
    /\ pc = "parsed"
    /\ NoImports
    /\ NoResolver
    /\ NoImplementations
    /\ NoWorkflows

SpecOutputs == InitOutputs /\ [][NextOutputs]_vars

-----------------------------------------------------------------------------
(* Claims about the plugin binder, checked under SpecBinder *)

BinderCalled == pc \in {"node_operation_bound", "relationship_operation_bound",
                        "workflow_bound"}

CalledForWorkflow == pc = "workflow_bound"

CallerErrorCode ==
    IF pc = "node_operation_bound" THEN NodeOperationErrorCode
    ELSE IF pc = "relationship_operation_bound" THEN RelationshipOperationErrorCode
    ELSE WorkflowErrorCode

\* the declared plugin names P such that the mapping starts with P + "."
DeclaredPrefixes(mapping) ==
    {P \in DOMAIN plugins : StartsWith(mapping, P \o <<".">>)}

LongestOf(names) == CHOOSE P \in names : \A Q \in names : Len(Q) <= Len(P)

\* the call went past the prefix match: it raised, or bound the script plugin
FellThroughToScriptBranch ==
    \/ op_descriptor.kind = "raised"
    \/ /\ op_descriptor.op_struct.plugin = SCRIPT_PLUGIN_NAME
       /\ op_descriptor.op_struct.operation \in
              {SCRIPT_PLUGIN_RUN_TASK, SCRIPT_PLUGIN_EXECUTE_WORKFLOW_TASK}

\* C1: for every non-empty operation mapping M and every set of declared plugin
\* names, the binder binds M to the longest declared name P such that M starts
\* with P + ".", with the part of M after that dot as the operation name; and a
\* mapping that equals a declared plugin name is not bound on that account: when
\* no declared name followed by "." is a prefix of it, the call falls through
\* to the script-plugin branch.
C1_LongestPrefixBinding ==
    LET M == ContentMapping(operation_content)
        matches == DeclaredPrefixes(M)
    IN  (BinderCalled /\ M # EmptyStr) =>
          /\ matches # {} =>
               LET P == LongestOf(matches)
               IN  /\ op_descriptor.kind = "returned"
                   /\ op_descriptor.plugin = plugins[P]
                   /\ op_descriptor.op_struct.plugin = P
                   /\ op_descriptor.op_struct.operation = Slice(M, Len(P) + 1)
          /\ (M \in DOMAIN plugins /\ matches = {}) => FellThroughToScriptBranch

\* the entries a payload had before the call, None counting as no entries
EntriesOf(content) == ContentPayload(content).entries

\* C2, the step of a call: when a non-empty mapping matches no plugin prefix,
\* the resource base is known, the mapping names an existing resource, a plugin
\* named script is declared and the payload has no script_path, the call returns
\* an op_struct with plugin script; for a node or relationship operation its
\* operation is the run task and inputs.script_path is the original mapping, for
\* a workflow its operation is the workflow task and
\* parameters.script_path.default is the original mapping; every other payload
\* entry is kept and the caller's payload is left as it was.
C2_Step ==
    LET M == ContentMapping(operation_content)
        before == EntriesOf(operation_content)
        struct == op_descriptor'.op_struct
    IN  ( /\ pc = "bind" /\ pc' # "bind"
          /\ M # EmptyStr
          /\ DeclaredPrefixes(M) = {}
          /\ resource_base # ""
          /\ M \in resources
          /\ SCRIPT_PLUGIN_NAME \in DOMAIN plugins
          /\ SCRIPT_PATH_PROPERTY \notin DOMAIN before )
        =>
        /\ op_descriptor'.kind = "returned"
        /\ op_descriptor'.plugin = plugins[SCRIPT_PLUGIN_NAME]
        /\ struct.plugin = SCRIPT_PLUGIN_NAME
        /\ struct.has_properties
        /\ DOMAIN struct.properties = DOMAIN before \cup {SCRIPT_PATH_PROPERTY}
        /\ \A k \in DOMAIN before : struct.properties[k] = before[k]
        /\ IF pc' = "workflow_bound"
           THEN /\ struct.operation = SCRIPT_PLUGIN_EXECUTE_WORKFLOW_TASK
                /\ struct.properties_field_name = "parameters"
                /\ struct.properties[SCRIPT_PATH_PROPERTY].default = M
           ELSE /\ struct.operation = SCRIPT_PLUGIN_RUN_TASK
                /\ struct.properties_field_name = "inputs"
                /\ struct.properties[SCRIPT_PATH_PROPERTY] = M
        /\ operation_content' = operation_content

C2_ScriptPluginFallback == [][C2_Step]_vars

\* C2 witness: a call bound the script plugin for an entry whose payload holds
\* another input
C2_Witness ==
    /\ BinderCalled
    /\ op_descriptor.kind = "returned"
    /\ op_descriptor.op_struct.plugin = SCRIPT_PLUGIN_NAME
    /\ "other" \in DOMAIN EntriesOf(operation_content)
    /\ "other" \in DOMAIN op_descriptor.op_struct.properties

\* the mapping of the call matched no plugin prefix and is not empty
UnmatchedMapping ==
    /\ BinderCalled
    /\ ContentMapping(operation_content) # EmptyStr
    /\ DeclaredPrefixes(ContentMapping(operation_content)) = {}

ResourceFound ==
    resource_base # "" /\ ContentMapping(operation_content) \in resources

PayloadHasScriptPath ==
    SCRIPT_PATH_PROPERTY \in DOMAIN EntriesOf(operation_content)

\* C3 as stated: for a non-empty mapping that matches no plugin prefix, an
\* unknown resource base or a missing resource raises the caller's code; an
\* existing resource with script_path in the payload raises 60; an existing
\* resource with no plugin named script raises 61.
C3_AsStated ==
    UnmatchedMapping =>
      /\ ~ResourceFound => /\ op_descriptor.kind = "raised"
                           /\ op_descriptor.code = CallerErrorCode
      /\ (ResourceFound /\ PayloadHasScriptPath) =>
             /\ op_descriptor.kind = "raised"
             /\ op_descriptor.code = ScriptPathDefinedErrorCode
      /\ (ResourceFound /\ SCRIPT_PLUGIN_NAME \notin DOMAIN plugins) =>
             /\ op_descriptor.kind = "raised"
             /\ op_descriptor.code = ScriptPluginMissingErrorCode

\* C3 amended: as stated, except that the missing script plugin raises 61 only
\* when the payload holds no script_path (script_path in the payload raises 60
\* whether or not the script plugin is declared).
C3_BinderErrors ==
    UnmatchedMapping =>
      /\ ~ResourceFound => /\ op_descriptor.kind = "raised"
                           /\ op_descriptor.code = CallerErrorCode
      /\ (ResourceFound /\ PayloadHasScriptPath) =>
             /\ op_descriptor.kind = "raised"
             /\ op_descriptor.code = ScriptPathDefinedErrorCode
      /\ (ResourceFound /\ ~PayloadHasScriptPath
              /\ SCRIPT_PLUGIN_NAME \notin DOMAIN plugins) =>
             /\ op_descriptor.kind = "raised"
             /\ op_descriptor.code = ScriptPluginMissingErrorCode

\* C3 witness: the resource exists, the payload holds script_path, no script
\* plugin is declared, and the call raised
C3_Witness ==
    /\ UnmatchedMapping
    /\ ResourceFound
    /\ PayloadHasScriptPath
    /\ SCRIPT_PLUGIN_NAME \notin DOMAIN plugins
    /\ op_descriptor.kind = "raised"

-----------------------------------------------------------------------------
(* Claims about the plan, checked under SpecRelationships and SpecHosts *)

PlanProduced == pc = "done"

\* the relationships of a node of the plan
RelationshipsOfNode(node) == node_templates[node.name].relationships

PlanNodeIds == {processed_nodes[j].id : j \in 1..Len(processed_nodes)}

\* the types a type equals or transitively derives from, as a closure over
\* the derived_from edges of the source types
RECURSIVE AncestryClosure(_, _)
AncestryClosure(types, reached) ==
    LET parents == {types[t].derived_from :
                       t \in {x \in reached \cap DOMAIN types :
                                 types[x].has_derived_from}}
    IN  IF parents \subseteq reached THEN reached
        ELSE AncestryClosure(types, reached \cup parents)

EqualsOrDerivesFrom(types, type_name, ancestor) ==
    ancestor \in AncestryClosure(types, {type_name})

\* the template _process_node handles in the next ProcessNode step
NodeExamined == NodeOrder(node_templates)[node_index + 1]

TargetIsNoNode(rel) == rel.target \notin DOMAIN node_templates
TargetIsSource(rel, source) == rel.target = source
TypeIsUndeclared(rel) == rel.type \notin DOMAIN relationships

Offends(rel, source) ==
    TargetIsNoNode(rel) \/ TargetIsSource(rel, source) \/ TypeIsUndeclared(rel)

\* the first relationship of the examined template that offends, or 0
FirstOffending ==
    LET rels == node_templates[NodeExamined].relationships
        offending == {k \in 1..Len(rels) : Offends(rels[k], NodeExamined)}
    IN  IF offending = {} THEN 0
        ELSE CHOOSE k \in offending : \A other \in offending : k <= other

FailsWith(code) == pc' = "failed" /\ error' = LogicError(code)

TargetsResolve ==
    \A j \in 1..Len(processed_nodes) :
       \A k \in 1..Len(RelationshipsOfNode(processed_nodes[j])) :
          LET rel == RelationshipsOfNode(processed_nodes[j])[k]
          IN  /\ rel.target_id \in PlanNodeIds
              /\ rel.target_id # processed_nodes[j].id

\* C4 as the claim states it: each of the three conditions alone decides the
\* code the relationship fails with
C4_StepAsStated ==
    /\ (pc = "process_nodes" /\ FirstOffending # 0) =>
          LET rel == node_templates[NodeExamined].relationships[FirstOffending]
          IN  /\ TargetIsNoNode(rel) => FailsWith(UndefinedTargetErrorCode)
              /\ TargetIsSource(rel, NodeExamined) => FailsWith(SelfTargetErrorCode)
              /\ TypeIsUndeclared(rel) => FailsWith(UndefinedRelationshipTypeErrorCode)
    /\ PlanProduced' => TargetsResolve'

C4_Step ==
    /\ (pc = "process_nodes" /\ FirstOffending # 0) =>
          LET rel == node_templates[NodeExamined].relationships[FirstOffending]
          IN  IF TargetIsNoNode(rel) THEN FailsWith(UndefinedTargetErrorCode)
              ELSE IF TargetIsSource(rel, NodeExamined)
              THEN FailsWith(SelfTargetErrorCode)
              ELSE FailsWith(UndefinedRelationshipTypeErrorCode)
    /\ PlanProduced' => TargetsResolve'

ContainedRelationships(node) ==
    {k \in 1..Len(RelationshipsOfNode(node)) :
        RelationshipsOfNode(node)[k].base = "contained"}

\* the relationships of a node whose types derive from contained_in
DerivedFromContainedIn(node) ==
    {k \in 1..Len(RelationshipsOfNode(node)) :
        EqualsOrDerivesFrom(relationships, RelationshipsOfNode(node)[k].type,
                            CONTAINED_IN_REL_TYPE)}

C5_Step ==
    /\ (/\ pc = "post_process_relationships"
        /\ Cardinality(DerivedFromContainedIn(processed_nodes[node_index + 1])) >= 2)
          => FailsWith(ManyContainedInErrorCode)
    /\ PlanProduced' =>
          \A j \in 1..Len(processed_nodes') :
             Cardinality(ContainedRelationships(processed_nodes[j])') <= 1

\* C5: in every plan produced each node has at most one relationship whose
\* base is 'contained'; post-processing a node with two or more relationships
\* whose types derive from contained_in fails with 112.
C5_AtMostOneContainedIn == [][C5_Step]_vars

\* a node with two contained-in relationships failed with 112
C5_Witness ==
    /\ pc = "failed"
    /\ error = LogicError(ManyContainedInErrorCode)
    /\ \E j \in 1..Len(processed_nodes) :
          Cardinality(DerivedFromContainedIn(processed_nodes[j])) >= 2

\* the base the claim gives a relationship type
ExpectedBase(rel_type) ==
    IF EqualsOrDerivesFrom(relationships, rel_type, CONTAINED_IN_REL_TYPE)
    THEN "contained"
    ELSE IF EqualsOrDerivesFrom(relationships, rel_type, CONNECTED_TO_REL_TYPE)
    THEN "connected"
    ELSE IF EqualsOrDerivesFrom(relationships, rel_type, DEPENDS_ON_REL_TYPE)
    THEN "depends"
    ELSE "undefined"

\* C6: every relationship of a produced plan has a base among contained,
\* connected, depends and undefined, and it is the first of the three
\* families, in that order, its type equals or derives from, else undefined.
C6_RelationshipBase ==
    PlanProduced =>
        \A j \in 1..Len(processed_nodes) :
           \A k \in 1..Len(RelationshipsOfNode(processed_nodes[j])) :
              LET rel == RelationshipsOfNode(processed_nodes[j])[k]
              IN  /\ rel.base \in {"contained", "connected", "depends", "undefined"}
                  /\ rel.base = ExpectedBase(rel.type)

\* a plan whose relationships have two different bases, one through a type
\* that derives from contained_in in two steps
C6_Witness ==
    /\ PlanProduced
    /\ \E j \in 1..Len(processed_nodes) :
       \E k \in 1..Len(RelationshipsOfNode(processed_nodes[j])) :
          /\ RelationshipsOfNode(processed_nodes[j])[k].type = "hosted"
          /\ RelationshipsOfNode(processed_nodes[j])[k].base = "contained"
    /\ \E j \in 1..Len(processed_nodes) :
       \E k \in 1..Len(RelationshipsOfNode(processed_nodes[j])) :
          RelationshipsOfNode(processed_nodes[j])[k].base \in {"depends", "undefined"}

IsHostNode(node) == EqualsOrDerivesFrom(node_types, node.type, HOST_TYPE)

NodeWithId(node_id) ==
    processed_nodes[CHOOSE j \in 1..Len(processed_nodes) :
                        processed_nodes[j].id = node_id]

SameHost(node, other) ==
    /\ node.has_host_id = other.has_host_id
    /\ node.has_host_id => node.host_id = other.host_id

\* C7: in a produced plan a node's host_id is its own id iff its type equals
\* or derives from the host type; any other node has the host_id of the
\* target of its contained-in relationship, and none when it has no such
\* relationship or that target has none.
C7_HostDerivation ==
    PlanProduced =>
        \A j \in 1..Len(processed_nodes) :
           LET node == processed_nodes[j]
               containing == DerivedFromContainedIn(node)
           IN  /\ (node.has_host_id /\ node.host_id = node.id) <=> IsHostNode(node)
               /\ (~IsHostNode(node) /\ containing = {}) => ~node.has_host_id
               /\ (~IsHostNode(node) /\ containing # {}) =>
                     \A k \in containing :
                        SameHost(node, NodeWithId(RelationshipsOfNode(node)[k].target_id))

\* a plan where a node reaches its host in two steps and another node's climb
\* is the plan's other case
C7_Witness ==
    /\ PlanProduced
    /\ \E j \in 1..Len(processed_nodes) :
          LET node == processed_nodes[j]
          IN  /\ ~IsHostNode(node)
              /\ node.has_host_id
              /\ \E k \in DerivedFromContainedIn(node) :
                    ~IsHostNode(NodeWithId(RelationshipsOfNode(node)[k].target_id))

\* a plan where the climb of a node ends at a node that is no host and is
\* contained in nothing
C7_WitnessNoHost ==
    /\ PlanProduced
    /\ \E j \in 1..Len(processed_nodes) :
          LET node == processed_nodes[j]
          IN  /\ ~node.has_host_id
              /\ DerivedFromContainedIn(node) # {}

HoldsHostAgentPlugin(node) ==
    \E name \in DOMAIN node.plugins : node.plugins[name].executor = HOST_AGENT

C8_Step ==
    /\ (/\ pc = "validate"
        /\ \E j \in 1..Len(processed_nodes) :
              /\ ~processed_nodes[j].has_host_id
              /\ HoldsHostAgentPlugin(processed_nodes[j]))
          => FailsWith(HostAgentWithoutHostErrorCode)
    /\ PlanProduced' =>
          \A j \in 1..Len(processed_nodes') :
             HoldsHostAgentPlugin(processed_nodes'[j]) => processed_nodes'[j].has_host_id

\* C8: in every plan produced a node that holds a host_agent plugin has a
\* host_id; validating nodes of which one has no host_id and holds a
\* host_agent plugin fails with 24.
C8_HostAgentPluginsNeedHost == [][C8_Step]_vars

\* a node holding a host_agent plugin without a host_id failed with 24
C8_Witness ==
    /\ pc = "failed"
    /\ error = LogicError(HostAgentWithoutHostErrorCode)
    /\ \E j \in 1..Len(processed_nodes) :
          /\ ~processed_nodes[j].has_host_id
          /\ HoldsHostAgentPlugin(processed_nodes[j])

\* a hierarchy ends with the type, starts at a root, and the pairs of
\* adjacent entries are linked as linked(parent, child) says
HierarchyOf(hierarchy, type_name, types, linked(_, _)) ==
    /\ Len(hierarchy) >= 1
    /\ hierarchy[Len(hierarchy)] = type_name
    /\ ~types[hierarchy[1]].has_derived_from
    /\ \A i \in 1..(Len(hierarchy) - 1) : linked(hierarchy[i], hierarchy[i + 1])

AllHierarchies(node_linked(_, _), rel_linked(_, _)) ==
    \A j \in 1..Len(processed_nodes) :
       /\ HierarchyOf(processed_nodes[j].type_hierarchy, processed_nodes[j].type,
                      node_types, node_linked)
       /\ \A k \in 1..Len(RelationshipsOfNode(processed_nodes[j])) :
             HierarchyOf(RelationshipsOfNode(processed_nodes[j])[k].type_hierarchy,
                         RelationshipsOfNode(processed_nodes[j])[k].type,
                         relationships, rel_linked)

\* C9 as the claim states it: the parent entry derives from the child entry
C9_AsStated ==
    PlanProduced =>
        AllHierarchies(
            LAMBDA parent, child : /\ node_types[parent].has_derived_from
                                   /\ node_types[parent].derived_from = child,
            LAMBDA parent, child : /\ relationships[parent].has_derived_from
                                   /\ relationships[parent].derived_from = child)

\* C9: in a produced plan every node's and every relationship's
\* type_hierarchy ends with its type, starts at a type without derived_from,
\* and in each pair of adjacent entries (parent, child) the child's
\* derived_from in the source types is the parent.
C9_TypeHierarchy ==
    PlanProduced =>
        AllHierarchies(
            LAMBDA parent, child : /\ node_types[child].has_derived_from
                                   /\ node_types[child].derived_from = parent,
            LAMBDA parent, child : /\ relationships[child].has_derived_from
                                   /\ relationships[child].derived_from = parent)

\* a plan with a relationship whose hierarchy has three entries and a node
\* whose hierarchy has two
C9_Witness ==
    /\ PlanProduced
    /\ \E j \in 1..Len(processed_nodes) : Len(processed_nodes[j].type_hierarchy) = 2
    /\ \E j \in 1..Len(processed_nodes) :
       \E k \in 1..Len(RelationshipsOfNode(processed_nodes[j])) :
          Len(RelationshipsOfNode(processed_nodes[j])[k].type_hierarchy) = 3

\* the names in a list of plugins
PluginNamesIn(plugin_list) == {plugin_list[i].name : i \in 1..Len(plugin_list)}

\* C10: in a produced plan the names in plugins_to_install of a node whose
\* type derives from the host type are the names of the host_agent plugins
\* held by the nodes whose host_id is that node's id, each once; any other
\* node has no plugins_to_install.
C10_PluginsToInstall ==
    PlanProduced =>
        \A j \in 1..Len(processed_nodes) :
           LET node == processed_nodes[j]
               hosted == {i \in 1..Len(processed_nodes) :
                             /\ processed_nodes[i].has_host_id
                             /\ processed_nodes[i].host_id = node.id}
               expected == UNION {{processed_nodes[i].plugins[name].name :
                                      name \in {n \in DOMAIN processed_nodes[i].plugins :
                                                   processed_nodes[i].plugins[n].executor
                                                       = HOST_AGENT}} :
                                  i \in hosted}
           IN  IF IsHostNode(node)
               THEN /\ node.has_plugins_to_install
                    /\ PluginNamesIn(node.plugins_to_install) = expected
                    /\ Len(node.plugins_to_install) = Cardinality(expected)
               ELSE ~node.has_plugins_to_install

\* a plan where two nodes on one host hold the same host_agent plugin, and a
\* node on that host holds a central_deployment_agent plugin
C10_Witness ==
    /\ PlanProduced
    /\ \E h \in 1..Len(processed_nodes) :
          /\ IsHostNode(processed_nodes[h])
          /\ Len(processed_nodes[h].plugins_to_install) = 1
          /\ \E i, j \in 1..Len(processed_nodes) :
                /\ i # j
                /\ processed_nodes[i].has_host_id /\ processed_nodes[j].has_host_id
                /\ processed_nodes[i].host_id = processed_nodes[h].id
                /\ processed_nodes[j].host_id = processed_nodes[h].id
                /\ HoldsHostAgentPlugin(processed_nodes[i])
                /\ HoldsHostAgentPlugin(processed_nodes[j])
          /\ \E i \in 1..Len(processed_nodes) :
                /\ processed_nodes[i].has_host_id
                /\ processed_nodes[i].host_id = processed_nodes[h].id
                /\ \E name \in DOMAIN processed_nodes[i].plugins :
                      processed_nodes[i].plugins[name].executor
                          = CENTRAL_DEPLOYMENT_AGENT

-----------------------------------------------------------------------------
(* Claims about the plan-level plugin lists, checked under SpecWorkflows *)

NoTwoOfOneName(plugin_list) ==
    \A i, j \in 1..Len(plugin_list) :
       plugin_list[i].name = plugin_list[j].name => i = j

\* the names of the central_deployment_agent plugins the nodes use
CentralPluginNamesOfNodes ==
    UNION {{processed_nodes[j].plugins[n].name :
               n \in {m \in DOMAIN processed_nodes[j].plugins :
                         processed_nodes[j].plugins[m].executor
                             = CENTRAL_DEPLOYMENT_AGENT}} :
           j \in 1..Len(processed_nodes)}

\* the names of the declared plugins the workflows reference
PluginNamesOfWorkflows ==
    {processed_workflows[w].plugin : w \in DOMAIN processed_workflows}
        \cap DOMAIN plugins

PlanPluginListsRight ==
    /\ PluginNamesIn(deployment_plugins_to_install) = CentralPluginNamesOfNodes
    /\ NoTwoOfOneName(deployment_plugins_to_install)
    /\ PluginNamesIn(workflow_plugins_to_install) = PluginNamesOfWorkflows
    /\ NoTwoOfOneName(workflow_plugins_to_install)

C11_Step ==
    pc = "plan_plugins" => (pc' = "plan" /\ PlanPluginListsRight')

\* C11: once the nodes and the workflows of a blueprint have passed binding,
\* a workflow with the empty mapping included, the plan's two plugin lists are
\* built: deployment_plugins_to_install holds exactly the
\* central_deployment_agent plugins the nodes use, workflow_plugins_to_install
\* exactly the declared plugins the workflows reference, each name once.
C11_PlanPluginLists == [][C11_Step]_vars

\* the lists are right whenever they are built
C11_ListsWhenBuilt == pc \in {"plan", "done"} => PlanPluginListsRight

\* a workflow with the empty mapping passed binding and the lists were never
\* built
C11_Witness ==
    /\ pc = "failed"
    /\ error = KeyError
    /\ \E w \in DOMAIN processed_workflows : processed_workflows[w].plugin = EmptyStr


-----------------------------------------------------------------------------
(* Claims about the pools of implementations *)

AllNodesProcessed == Len(processed_nodes) = Cardinality(DOMAIN node_templates)

CompileEnded == pc \in {"failed", "done"}

\* the error is 110 and carries the name and the node_ref of a type
\* implementation left in the pool
FailedWithUnusedTypeImpl ==
    /\ pc = "failed"
    /\ \E impl_name \in DOMAIN type_impls :
          error = UnusedTypeImplError(impl_name, type_impls[impl_name].node_ref)

\* the error is 111 and names a relationship implementation left in the pool
FailedWithUnusedRelationshipImpl ==
    /\ pc = "failed"
    /\ \E impl_name \in DOMAIN relationship_impls :
          error = UnusedRelationshipImplError(
                      impl_name, relationship_impls[impl_name].source_node_ref)

UnusedImplementationsRejected ==
    /\ DOMAIN type_impls # {} => FailedWithUnusedTypeImpl
    /\ (DOMAIN type_impls = {} /\ DOMAIN relationship_impls # {})
          => FailedWithUnusedRelationshipImpl

\* C12 as stated: once every node template has been processed, a compile that
\* ends with a type implementation left fails with 110, one that ends with only
\* relationship implementations left fails with 111
C12_AsStated ==
    (AllNodesProcessed /\ CompileEnded) => UnusedImplementationsRejected

C12_Step ==
    /\ (/\ pc = "validate"
        /\ \A j \in 1..Len(processed_nodes) :
              ~HostAgentPluginWithoutHost(processed_nodes[j]))
          => /\ UnusedImplementationsRejected'
             /\ (DOMAIN type_impls = {} /\ DOMAIN relationship_impls = {})
                   => pc' = "finish"
    /\ pc' \in {"finish", "done"}
          => (DOMAIN type_impls' = {} /\ DOMAIN relationship_impls' = {})

\* C12: when the validation that ends _post_process_nodes is reached and the
\* host-agent plugin check passes, a type implementation left in the pool fails
\* the compile with 110 carrying the name and node_ref of an unused
\* implementation, otherwise a relationship implementation left fails it with
\* 111; the compile goes on, and a plan is produced, only with both pools empty
C12_UnusedImplementations == [][C12_Step]_vars

\* a type implementation that refers to no node is reported while a
\* relationship implementation is left as well
C12_Witness ==
    /\ pc = "failed"
    /\ error = UnusedTypeImplError("i1", "nosuch")
    /\ DOMAIN relationship_impls # {}

\* only relationship implementations are left, and 111 is raised
C12_WitnessRelationship ==
    /\ FailedWithUnusedRelationshipImpl
    /\ DOMAIN type_impls = {}


\* the type implementations that refer to the node called node_name
ImplementationsOfNode(node_name) ==
    {i \in DOMAIN type_impls : type_impls[i].node_ref = node_name}

LastProcessedNode == processed_nodes[Len(processed_nodes)]

\* the step processed the node: it is the last node of processed_nodes
NodeProcessedAs(node_name, declared_type, type) ==
    /\ Len(processed_nodes') = Len(processed_nodes) + 1
    /\ LastProcessedNode'.name = node_name
    /\ LastProcessedNode'.declared_type = declared_type
    /\ LastProcessedNode'.type = type

\* what the step that processes a node of a declared type does with the
\* type implementations that refer to it; an exception of the relationships
\* of the node may still end the compile after the implementation was applied
TypeImplementationApplied(only_declared) ==
    LET declared_type == node_templates[NodeExamined].type
        impls == ImplementationsOfNode(NodeExamined)
    IN  IF Cardinality(impls) > 1
        THEN FailsWith(AmbiguousTypeImplErrorCode)
        ELSE IF impls = {}
        THEN pc' # "failed" =>
                /\ NodeProcessedAs(NodeExamined, declared_type, declared_type)
                /\ type_impls' = type_impls
        ELSE LET impl_name == CHOOSE i \in impls : TRUE
                 impl_type == type_impls[impl_name].type
             IN  IF only_declared /\ impl_type \notin DOMAIN node_types
                 THEN TRUE
                 ELSE IF EqualsOrDerivesFrom(node_types, impl_type, declared_type)
                 THEN /\ error'.code \notin {AmbiguousTypeImplErrorCode,
                                            TypeImplNotDerivedErrorCode}
                      /\ pc' # "failed" =>
                            /\ NodeProcessedAs(NodeExamined, declared_type, impl_type)
                            /\ type_impls' =
                                  [n \in DOMAIN type_impls \ {impl_name} |->
                                      type_impls[n]]
                 ELSE FailsWith(TypeImplNotDerivedErrorCode)

C13_Step ==
    (pc = "process_nodes" /\ node_templates[NodeExamined].type \in DOMAIN node_types)
       => TypeImplementationApplied(FALSE)

\* C13: when a node template of a declared type is processed, more than one
\* type implementation with its name as node_ref fails the compile with 103; a
\* single one whose type equals or derives from the declared type gives the
\* processed node its type (declared_type keeps the template's) and leaves the
\* pool; a single one whose type does not fails with 102; with none the node
\* keeps its declared type and the pool is unchanged.
C13_TypeImplementationApplication == [][C13_Step]_vars

C13_StepDeclared ==
    (pc = "process_nodes" /\ node_templates[NodeExamined].type \in DOMAIN node_types)
       => TypeImplementationApplied(TRUE)

\* the same when the type of the single implementation is a declared node type
C13_WhenTypeDeclared == [][C13_StepDeclared]_vars

\* the single type implementation of the node names a type that no node type
\* declares, and the compile ended with a KeyError
C13_Witness ==
    /\ pc = "failed"
    /\ error = KeyError
    /\ Cardinality(ImplementationsOfNode(NodeExamined)) = 1
    /\ \E i \in ImplementationsOfNode(NodeExamined) :
          type_impls[i].type \notin DOMAIN node_types

\* a type implementation was applied to the host node
C13_WitnessApplied ==
    /\ Len(processed_nodes) >= 1
    /\ processed_nodes[1].declared_type = HOST_TYPE
    /\ processed_nodes[1].type = "vm"
    /\ DOMAIN type_impls = {}


\* the relationship implementations between the two nodes
ImplementationsBetween(source, target) ==
    {i \in DOMAIN relationship_impls :
        /\ relationship_impls[i].source_node_ref = source
        /\ relationship_impls[i].target_node_ref = target}

\* those whose type does not equal or derive from the declared one
NotDerivingBetween(source, target, declared_type) ==
    {i \in ImplementationsBetween(source, target) :
        ~EqualsOrDerivesFrom(relationships, relationship_impls[i].type,
                             declared_type)}

\* the node examined has relationship instances and no type implementation, so
\* that the step reaches the lookup for its first relationship instance
ReachesFirstRelationship ==
    /\ pc = "process_nodes"
    /\ node_templates[NodeExamined].type \in DOMAIN node_types
    /\ ImplementationsOfNode(NodeExamined) = {}
    /\ Len(node_templates[NodeExamined].relationships) >= 1

\* the instances of the node whose type the step changed are no more than the
\* implementations it took out of the pool
OneInstancePerImplementation ==
    Cardinality({k \in 1..Len(node_templates[NodeExamined].relationships) :
                    node_templates'[NodeExamined].relationships[k].type
                       # node_templates[NodeExamined].relationships[k].type})
       <= Cardinality(DOMAIN relationship_impls \ DOMAIN relationship_impls')

\* what the step does with the implementations between the node and the target
\* of its first relationship instance
RelationshipImplementationApplied(only_deriving) ==
    LET rel == node_templates[NodeExamined].relationships[1]
        impls == ImplementationsBetween(NodeExamined, rel.target)
        not_deriving == NotDerivingBetween(NodeExamined, rel.target, rel.type)
    IN  IF not_deriving # {}
        THEN only_deriving \/ FailsWith(RelationshipImplNotDerivedErrorCode)
        ELSE IF Cardinality(impls) > 1
        THEN FailsWith(AmbiguousRelationshipImplErrorCode)
        ELSE /\ pc' # "failed" => OneInstancePerImplementation
             /\ \A i \in impls :
                   /\ error'.code \notin {AmbiguousRelationshipImplErrorCode,
                                         RelationshipImplNotDerivedErrorCode}
                   /\ i \notin DOMAIN relationship_impls'
                   /\ node_templates'[NodeExamined].relationships[1].type
                         = relationship_impls[i].type

C14_Step == ReachesFirstRelationship => RelationshipImplementationApplied(FALSE)

\* C14: for the first relationship instance of a node, from s to t of declared
\* type d, a relationship implementation with source_node_ref s and
\* target_node_ref t whose type does not derive from d fails the compile with
\* 109; otherwise more than one such implementation fails it with 108; a single
\* one replaces the type of the relationship with its own and leaves the pool,
\* and no implementation is applied to two instances.
C14_RelationshipImplementationApplication == [][C14_Step]_vars

C14_StepDeriving == ReachesFirstRelationship => RelationshipImplementationApplied(TRUE)

\* the same when every implementation between s and t derives from d
C14_WhenDeriving == [][C14_StepDeriving]_vars

\* no compile ends with 109
C14_Never109 == error.code # RelationshipImplNotDerivedErrorCode

\* an implementation between n2 and n1 of a declared type that derives from
\* the type of no instance was left in the pool, and the compile ended with 111
C14_Witness ==
    /\ FailedWithUnusedRelationshipImpl
    /\ \E i \in ImplementationsBetween("n2", "n1") :
          /\ relationship_impls[i].type \in DOMAIN relationships
          /\ \A k \in 1..Len(node_templates["n2"].relationships) :
                ~EqualsOrDerivesFrom(relationships, relationship_impls[i].type,
                                     node_templates["n2"].relationships[k].type)
    /\ Len(node_templates["n2"].relationships) >= 1

\* one implementation, two instances it could replace: the first took it
C14_WitnessApplied ==
    /\ pc = "done"
    /\ Len(node_templates["n2"].relationships) = 2
    /\ node_templates["n2"].relationships[1].type = "hosted"
    /\ node_templates["n2"].relationships[2].type = DEPENDS_ON_REL_TYPE


-----------------------------------------------------------------------------
(* Claims about imports *)

\* the keys whose values are merged entry by entry
EntryMergedKeys ==
    {"interfaces", "node_types", "plugins", "workflows", "type_implementations",
     "relationships", "relationship_implementations", "policy_types", "groups",
     "policy_triggers"}

\* the document the next MergeImport step folds into the combined one
DocumentMerged == documents[ordered_imports_list[import_index]]

MergingImport == pc = "merge_imports" /\ import_index <= Len(ordered_imports_list)

VersionOfImportFits ==
    VERSION \in DOMAIN DocumentMerged => DocumentMerged[VERSION] = parsed_dsl[VERSION]

\* the keys of the imported document that take part in the merge
KeysMerged == DOMAIN DocumentMerged \ {IMPORTS, VERSION}

NonMergeableKeys ==
    {k \in KeysMerged : k \in DOMAIN combined_parsed_dsl /\ k \notin EntryMergedKeys}

ConflictingKeys ==
    {k \in KeysMerged :
        /\ k \in DOMAIN combined_parsed_dsl
        /\ k \in EntryMergedKeys
        /\ DOMAIN DocumentMerged[k] \cap DOMAIN combined_parsed_dsl[k] # {}}

\* the combined document after the step holds what it held, the absent keys
\* as the import has them, and under the merged keys the entries of both
FoldedKeyByKey ==
    /\ DOMAIN combined_parsed_dsl' = DOMAIN combined_parsed_dsl \cup KeysMerged
    /\ \A k \in DOMAIN combined_parsed_dsl \ KeysMerged :
          combined_parsed_dsl'[k] = combined_parsed_dsl[k]
    /\ \A k \in KeysMerged \ DOMAIN combined_parsed_dsl :
          combined_parsed_dsl'[k] = DocumentMerged[k]
    /\ \A k \in KeysMerged \cap DOMAIN combined_parsed_dsl :
          /\ DOMAIN combined_parsed_dsl'[k] =
                DOMAIN combined_parsed_dsl[k] \cup DOMAIN DocumentMerged[k]
          /\ \A e \in DOMAIN combined_parsed_dsl[k] :
                combined_parsed_dsl'[k][e] = combined_parsed_dsl[k][e]
          /\ \A e \in DOMAIN DocumentMerged[k] :
                combined_parsed_dsl'[k][e] = DocumentMerged[k][e]

CombinedReturned ==
    pc \notin {"combine_imports", "strip_root", "merge_imports", "failed"}

C15_Step ==
    /\ (MergingImport /\ VersionOfImportFits) =>
          IF NonMergeableKeys = {} /\ ConflictingKeys = {}
          THEN pc' # "failed" /\ FoldedKeyByKey
          ELSE /\ pc' = "failed"
               /\ \/ NonMergeableKeys # {} /\ error' = LogicError(3)
                  \/ ConflictingKeys # {} /\ error' = LogicError(4)
    /\ CombinedReturned' => IMPORTS \notin DOMAIN combined_parsed_dsl'

\* C15: when an imported document is folded into the combined one, a key other
\* than imports that the combined document lacks is assigned as is; a key it
\* has that is one of interfaces, node_types, plugins, workflows,
\* type_implementations, relationships, relationship_implementations,
\* policy_types, groups, policy_triggers is merged entry by entry, an entry
\* name already present failing with 4 and never overriding; any other key it
\* has fails with 3; the combined document returned has no imports key.
C15_MergePolicy == [][C15_Step]_vars

\* the root declares app, a brings vm and the host type, and inputs, which the
\* root lacks
C15_Witness ==
    /\ pc = "done"
    /\ NODE_TYPES \in DOMAIN parsed_dsl
    /\ INPUTS \notin DOMAIN parsed_dsl
    /\ INPUTS \in DOMAIN combined_parsed_dsl
    /\ DOMAIN combined_parsed_dsl[NODE_TYPES] = {"app", "vm", HOST_TYPE}
    /\ combined_parsed_dsl[INPUTS] = OneInput("y", "a")
    /\ IMPORTS \notin DOMAIN combined_parsed_dsl

\* an entry name of node_types was already present
C15_WitnessConflict ==
    /\ pc = "failed" /\ error = LogicError(4) /\ import_index = 2

\* inputs was already present
C15_WitnessNonMergeable ==
    /\ pc = "failed" /\ error = LogicError(3)
    /\ INPUTS \in DOMAIN combined_parsed_dsl
    /\ NODE_TEMPLATES \notin DOMAIN documents["a"]


\* the imports section of a document, empty when it has none
ImportsOf(document) == IF IMPORTS \in DOMAIN document THEN document[IMPORTS] ELSE <<>>

\* the urls the documents at the urls of reached import, and so on
RECURSIVE ImportClosure(_)
ImportClosure(reached) ==
    LET more == UNION {SeqRange(ImportsOf(documents[u])) :
                          u \in reached \cap DOMAIN documents}
    IN  IF more \subseteq reached THEN reached ELSE ImportClosure(reached \cup more)

\* every url the compile of the root resolves
ResolvedUrls ==
    ImportClosure(SeqRange(ImportsOf(parsed_dsl))
                  \cup (IF dsl_location = NoLocation THEN {} ELSE {dsl_location}))

NoUrlTwice(list) ==
    \A i, j \in 1..Len(list) : list[i] = list[j] => i = j

\* every entry but the root's is imported by the root or by a document whose
\* url stands before it
ImporterFirst(list) ==
    \A q \in 1..Len(list) :
       \/ q = 1 /\ list[q] = dsl_location
       \/ list[q] \in SeqRange(ImportsOf(parsed_dsl))
       \/ \E p \in 1..(q - 1) : list[q] \in SeqRange(ImportsOf(documents[list[p]]))

ImportListRight(list) ==
    /\ NoUrlTwice(list)
    /\ SeqRange(list) = ResolvedUrls
    /\ dsl_location # NoLocation => list[1] = dsl_location
    /\ ImporterFirst(list)

C16_Step ==
    /\ (pc = "combine_imports" /\ IMPORTS \in DOMAIN parsed_dsl) =>
          /\ pc' \in {"strip_root", "failed"}
          /\ pc' = "strip_root" => ImportListRight(ordered_imports_list')
          /\ pc' = "failed" => ResolvedUrls \ DOMAIN documents # {}
    /\ pc = "strip_root" =>
          /\ SeqRange(ordered_imports_list') =
                SeqRange(ordered_imports_list) \ {dsl_location}
          /\ NoUrlTwice(ordered_imports_list')
          /\ import_index' = 1
    /\ MergingImport =>
          \/ pc' = "failed"
          \/ import_index' = import_index + 1 /\ UNCHANGED ordered_imports_list
    /\ (pc = "merge_imports" /\ pc' = "validate_schema") =>
          import_index > Len(ordered_imports_list)

\* C16: for every import graph, cyclic ones and diamonds included, building
\* the ordered import list ends; when every url can be opened each resolved url
\* is in it exactly once, the root's url (when it has one) first, and every
\* other url after the root or a listed document that imports it; the root's
\* url is the only entry left out of the merge, which takes the others one by
\* one in list order.
C16_ImportList == [][C16_Step]_vars

\* the root imports a and b, a imports b and the root, b imports a
C16_Witness ==
    /\ pc = "done"
    /\ dsl_location = "r"
    /\ ordered_imports_list = <<"a", "b">>
    /\ parsed_dsl[IMPORTS] = <<"a", "b">>
    /\ ImportsOf(documents["a"]) = <<"b", "r">>
    /\ ImportsOf(documents["b"]) = <<"a">>

\* a root without location whose import imports the file of the root
C16_WitnessNoLocation ==
    /\ dsl_location = NoLocation
    /\ ordered_imports_list = <<"a", "r">>
    /\ pc = "failed"


RootDeclaresVersion == VERSION \in DOMAIN parsed_dsl

\* every merged document that declares a version declares the root's
ImportedVersionsFit ==
    \A i \in 1..Len(ordered_imports_list) :
       LET imported == documents[ordered_imports_list[i]]
       IN  VERSION \in DOMAIN imported => imported[VERSION] = parsed_dsl[VERSION]

C17_Step ==
    /\ (pc = "combine_imports" /\ ~RootDeclaresVersion)
          => FailsWith(MissingVersionErrorCode)
    /\ (MergingImport /\ ~VersionOfImportFits)
          => FailsWith(ImportedVersionErrorCode)
    /\ (MergingImport /\ VERSION \notin DOMAIN DocumentMerged)
          => error' # LogicError(ImportedVersionErrorCode)
    /\ (pc = "validate_schema" /\ parsed_dsl[VERSION] \notin SUPPORTED_VERSIONS)
          => FailsWith(UnsupportedVersionErrorCode)
    /\ (error' = LogicError(UnsupportedVersionErrorCode) /\ error # error')
          => pc = "validate_schema"
    /\ VERSION \in DOMAIN combined_parsed_dsl'
          => combined_parsed_dsl'[VERSION] = parsed_dsl[VERSION]
    /\ PlanProduced' =>
          /\ RootDeclaresVersion
          /\ parsed_dsl[VERSION] \in SUPPORTED_VERSIONS
          /\ ImportedVersionsFit

C17_WitnessMissing == pc = "failed" /\ error = LogicError(MissingVersionErrorCode)

C17_WitnessImported ==
    /\ pc = "failed" /\ error = LogicError(ImportedVersionErrorCode)
    /\ import_index = 1

C17_WitnessUnsupported ==
    /\ pc = "failed" /\ error = LogicError(UnsupportedVersionErrorCode)
    /\ ordered_imports_list = <<"a", "b">>


-----------------------------------------------------------------------------
(* Claims about the operations of a node *)

LongName(interface_name, name) == interface_name \o <<".">> \o name

\* the interfaces that own an operation called name
OwnersOf(interfaces, name) ==
    {i \in DOMAIN interfaces : name \in DOMAIN interfaces[i]}

OperationNamesOf(interfaces) == UNION {DOMAIN interfaces[i] : i \in DOMAIN interfaces}

LongNamesOf(interfaces) ==
    UNION {{LongName(i, o) : o \in DOMAIN interfaces[i]} : i \in DOMAIN interfaces}

\* the operations map names every operation by its long name, and by its short
\* name exactly the operations that one interface owns
OperationNamesRight(interfaces, operations) ==
    /\ LongNamesOf(interfaces) \subseteq DOMAIN operations
    /\ \A o \in OperationNamesOf(interfaces) :
          o \in DOMAIN operations <=> Cardinality(OwnersOf(interfaces, o)) = 1
    /\ DOMAIN operations \subseteq
          LongNamesOf(interfaces) \cup OperationNamesOf(interfaces)

\* no operation is called as the long name of an operation
NoLongNameAsName(interfaces) ==
    LongNamesOf(interfaces) \cap OperationNamesOf(interfaces) = {}

OperationsStep(only_plain_names) ==
    (pc = "process_nodes" /\ pc' # "failed") =>
        \/ only_plain_names /\ ~NoLongNameAsName(node_templates[NodeExamined].interfaces)
        \/ OperationNamesRight(node_templates[NodeExamined].interfaces,
                               LastProcessedNode'.operations)

C18_Step == OperationsStep(FALSE)

\* C18: the operations map of a processed node holds the long name
\* 'interface.op' of every operation of every interface, and the short name
\* 'op' if and only if exactly one interface owns an operation of that name,
\* for one, two and three interfaces that share a name.
C18_ShortOperationNames == [][C18_Step]_vars

C18_StepPlainNames == OperationsStep(TRUE)

\* the same for interfaces none of whose operations is called as the long name
\* of an operation
C18_WhenNamesArePlain == [][C18_StepPlainNames]_vars

\* interface i owns x, interface j owns an operation called i.x, and the map
\* of the processed node lacks i.x
C18_Witness ==
    /\ Len(processed_nodes) >= 1
    /\ OwnersOf(node_templates["n1"].interfaces, <<"x">>) = {<<"i">>}
    /\ OwnersOf(node_templates["n1"].interfaces, <<"i", ".", "x">>) = {<<"j">>}
    /\ <<"i", ".", "x">> \notin DOMAIN processed_nodes[1].operations

\* three interfaces own x: only the long names are left
C18_WitnessThree ==
    /\ Len(processed_nodes) >= 1
    /\ OwnersOf(node_templates["n1"].interfaces, <<"x">>) = {<<"i">>, <<"j">>, <<"k">>}
    /\ <<"x">> \notin DOMAIN processed_nodes[1].operations
    /\ <<"k", ".", "x">> \in DOMAIN processed_nodes[1].operations

-----------------------------------------------------------------------------
(* Claims about the intrinsic functions of the plan, checked under
   SpecFunctions *)

LeavesOf(plan, k) ==
    {plan[k[1]][k[2]].items[i] : i \in 1..Len(plan[k[1]][k[2]].items)}

\* the properties of the plan that hold a function instance at some leaf
InstanceLeaves(plan) ==
    {k \in PropertyKeys(plan) : \E leaf \in LeavesOf(plan, k) : IsFunction(leaf)}

\* the properties of the plan that hold a raw get_property at some leaf
RawGetPropertyLeaves(plan) ==
    {k \in PropertyKeys(plan) :
        \E leaf \in LeavesOf(plan, k) : leaf.kind = GET_PROPERTY_FUNCTION}

C19_Step ==
    pc = "validate_functions" /\ pc' = "done"
        => /\ InstanceLeaves(node_properties') = {}
           /\ node_properties' = node_properties

\* C19: function round-trip: whenever the function validator returns without
\* error, no leaf of the plan holds a function instance and the plan after the
\* validation equals the plan before it.
C19_FunctionRoundTrip == [][C19_Step]_vars

\* a plan with get_property leaves went through the validator
C19_Witness ==
    /\ pc = "done"
    /\ {<<"n1", "x">>, <<"n1", "y">>} \subseteq RawGetPropertyLeaves(node_properties)
    /\ node_properties["n1"]["x"].is_container

\* the properties that the get_property leaves of property k name
ReferencesOf(plan, k) ==
    {<<leaf.args[1], leaf.args[2]>> :
        leaf \in {l \in LeavesOf(plan, k) : l.kind = GET_PROPERTY_FUNCTION}}

\* the properties reached from those of from by following references, in one
\* step or more
RECURSIVE ReachedFrom(_, _, _)
ReachedFrom(plan, from, reached) ==
    LET next == UNION {ReferencesOf(plan, k) : k \in from} \ reached
    IN  IF next = {} THEN reached
        ELSE ReachedFrom(plan, next, reached \cup next)

ReferencedBy(plan, k) == ReachedFrom(plan, {k}, {})

\* some get_property of the plan leads to a property that refers to itself,
\* directly or through others
CyclicChain(plan) ==
    \E k \in PropertyKeys(plan) : \E target \in ReferencesOf(plan, k) :
    \E u \in {target} \cup ReferencedBy(plan, target) : u \in ReferencedBy(plan, u)

IdOf(k) == <<k[1], ".", k[2]>>

\* the ids of the properties, in order, with " -> " between them
RECURSIVE ListedWithArrows(_)
ListedWithArrows(ids) ==
    IF Len(ids) = 1 THEN IdOf(ids[1])
    ELSE IdOf(ids[1]) \o <<" -> ">> \o ListedWithArrows(Tail(ids))

\* ids is a visiting order that ends with a repeat: it starts at the target
\* of a get_property of the plan, each later property is named by a
\* get_property of an earlier one, and only the last was visited before
VisitEndingWithRepeat(plan, ids) ==
    /\ Len(ids) >= 2
    /\ \E k \in PropertyKeys(plan) : ids[1] \in ReferencesOf(plan, k)
    /\ \A i \in 2..Len(ids) : \E j \in 1..(i - 1) : ids[i] \in ReferencesOf(plan, ids[j])
    /\ \A i, j \in 1..(Len(ids) - 1) : i # j => ids[i] # ids[j]
    /\ \E j \in 1..(Len(ids) - 1) : ids[j] = ids[Len(ids)]

\* the properties some get_property of the plan names
Referenced(plan) == UNION {ReferencesOf(plan, k) : k \in PropertyKeys(plan)}

CircularCallReported(plan, err) ==
    /\ err.type = "RuntimeError"
    /\ \E ids \in SeqsUpTo(Referenced(plan), Cardinality(Referenced(plan)) + 1) :
          /\ VisitEndingWithRepeat(plan, ids)
          /\ err.message = <<"Circular get_property function call detected: ">>
                           \o ListedWithArrows(ids)

C20_Step ==
    pc = "validate_functions"
        => /\ CyclicChain(node_properties)
                => pc' = "failed" /\ CircularCallReported(node_properties, error')
           /\ pc' = "failed" => CircularCallReported(node_properties, error')
           /\ pc' = "done" => ~CyclicChain(node_properties)

\* C20: circular get_property is rejected: when the references followed from
\* a get_property of the plan come back to a property already visited, the
\* validation fails with a runtime error whose message lists the visited
\* properties in visiting order, joined by ' -> ' and ending with the
\* repeated one; a plan is produced only if no chain of references is cyclic.
C20_CircularGetProperty == [][C20_Step]_vars

\* n1.x and n2.x refer to each other and the error names both in order
C20_Witness ==
    /\ pc = "failed"
    /\ error.type = "RuntimeError"
    /\ error.message = <<"Circular get_property function call detected: ",
                         "n1", ".", "x", " -> ", "n2", ".", "x", " -> ",
                         "n1", ".", "x">>

\* a chain of references that ends in a string: the plan is produced
C20_WitnessAcyclic ==
    /\ pc = "done"
    /\ ReferencesOf(node_properties, <<"n1", "x">>) = {<<"n1", "y">>}
    /\ ReferencesOf(node_properties, <<"n1", "y">>) = {<<"n2", "x">>}
    /\ ReferencesOf(node_properties, <<"n2", "x">>) = {}

C20_StepOnlyCycles ==
    pc = "validate_functions" /\ pc' = "failed" => CyclicChain(node_properties)

\* the converse, that only a cyclic chain is rejected, does not hold: a value
\* that names the same property twice is rejected too
C20_OnlyCyclesRejected == [][C20_StepOnlyCycles]_vars

\* n1.x names n1.y twice, nothing is cyclic, and the validation fails
C20_WitnessTwice ==
    /\ pc = "failed"
    /\ error.type = "RuntimeError"
    /\ ~CyclicChain([n \in DOMAIN node_properties |->
                        [p \in DOMAIN node_properties[n] |->
                            [is_container |-> node_properties[n][p].is_container,
                             items |-> [i \in 1..Len(node_properties[n][p].items) |->
                                 ReplaceWithRawFunction(
                                     node_properties[n][p].items[i])]]]])

-----------------------------------------------------------------------------
(* Claims about the properties of a node, checked under SpecProperties *)

\* the node that the next step of _process_node processes
NextNodeName == NodeOrder(node_templates)[node_index + 1]

\* the implementation that names the node, if exactly one does and its type
\* derives from the declared one
ImplementationsOf(n) == {i \in DOMAIN type_impls : type_impls[i].node_ref = n}

\* a type and what it derives from, the type first
RECURSIVE Ancestry(_)
Ancestry(t) ==
    IF node_types[t].has_derived_from
    THEN <<t>> \o Ancestry(node_types[t].derived_from)
    ELSE <<t>>

OwnSchema(t) ==
    IF PROPERTIES \in DOMAIN node_types[t] THEN node_types[t][PROPERTIES] ELSE EmptyDict

\* S: each key of the type or of a type it derives from, with the entry of the
\* nearest type that declares it
FlattenedSchema(t) ==
    LET chain == Ancestry(t)
        keys == UNION {DOMAIN OwnSchema(chain[i]) : i \in 1..Len(chain)}
    IN  [k \in keys |->
            OwnSchema(chain[CHOOSE i \in 1..Len(chain) :
                                /\ k \in DOMAIN OwnSchema(chain[i])
                                /\ \A j \in 1..(i - 1) :
                                       k \notin DOMAIN OwnSchema(chain[j])])[k]]

\* the type of the node: that of its implementation if it has one
TypeOfNode(n) ==
    IF ImplementationsOf(n) = {} THEN node_templates[n].type
    ELSE type_impls[CHOOSE i \in ImplementationsOf(n) : TRUE].type

\* V and O
TemplateValues(n) ==
    IF PROPERTIES \in DOMAIN node_templates[n] THEN node_templates[n][PROPERTIES]
    ELSE EmptyDict

OverrideValues(n) ==
    IF ImplementationsOf(n) = {} THEN EmptyDict
    ELSE LET impl == type_impls[CHOOSE i \in ImplementationsOf(n) : TRUE]
         IN  IF PROPERTIES \in DOMAIN impl THEN impl[PROPERTIES] ELSE EmptyDict

KeyOutsideSchema(S, V, O) == (DOMAIN V \cup DOMAIN O) \ DOMAIN S # {}

MandatoryKeyMissing(S, V, O) ==
    \E k \in DOMAIN S : ~S[k].has_default /\ k \notin DOMAIN V \cup DOMAIN O

\* R follows the merge law for S, V and O
MergeLaw(R, S, V, O) ==
    /\ DOMAIN R = DOMAIN S \cup {"cloudify_runtime"}
    /\ R["cloudify_runtime"] = ContainerOf(<<>>)
    /\ \A k \in DOMAIN S \ {"cloudify_runtime"} :
           R[k] = IF k \in DOMAIN V THEN V[k]
                  ELSE IF k \in DOMAIN O THEN O[k]
                  ELSE S[k].default

PropertiesStep(S, V, O) ==
    /\ KeyOutsideSchema(S, V, O) \/ MandatoryKeyMissing(S, V, O) => pc' = "failed"
    /\ pc' # "failed" => MergeLaw(node_properties'[NextNodeName], S, V, O)

C21_Step ==
    pc = "process_nodes"
        => PropertiesStep(FlattenedSchema(TypeOfNode(NextNodeName)),
                          TemplateValues(NextNodeName), OverrideValues(NextNodeName))

\* C21: node properties follow the merge law: with flattened type schema S,
\* template values V and type-implementation override values O, the properties
\* of a processed node hold for every key k of S the value V[k] if present,
\* else O[k] if present, else the default of S[k], and no key outside S but
\* cloudify_runtime, which is always the empty mapping; a key of V or O that is
\* not in S, or a key of S without default that is in neither V nor O, makes
\* the compile fail.
C21_PropertyMergeLaw == [][C21_Step]_vars

\* a plan whose node takes a from the template, b from the implementation and
\* c from the default of the implementation's type
C21_Witness ==
    /\ pc = "done"
    /\ "n1" \in DOMAIN node_properties
    /\ DOMAIN TemplateValues("n1") = {"a"}
    /\ processed_nodes[1].type = "sub"
    /\ {"a", "b", "c"} \subseteq DOMAIN node_properties["n1"]
    /\ node_properties["n1"]["a"] = Scalar(Str("v"))
    /\ node_properties["n1"]["b"] = Scalar(Str("o"))
    /\ node_properties["n1"]["c"] = Scalar(Str("s"))

\* the schema and the template name cloudify_runtime, and the node holds the
\* empty mapping
C21_WitnessRuntime ==
    /\ pc = "done"
    /\ "n1" \in DOMAIN node_properties
    /\ "cloudify_runtime" \in DOMAIN TemplateValues("n1")
    /\ node_properties["n1"]["cloudify_runtime"] = ContainerOf(<<>>)

\* a value for a key that the schema lacks fails the compile
C21_WitnessOutsideSchema ==
    /\ pc = "failed"
    /\ error.type = "DSLParsingLogicException"
    /\ DOMAIN TemplateValues("n1") = {"c"}

-----------------------------------------------------------------------------
(* Claims about resource resolution *)

\* the name that is resolved: the logical name after alias mapping
PostAliasName ==
    IF logical_name \in DOMAIN alias_mapping THEN alias_mapping[logical_name]
    ELSE logical_name

\* the context of the call that ends in the next state: a ref is resolved
\* against the document that holds it, the blueprint location against none
ContextOfCall ==
    IF pc' = "ref_read" \/ (pc' = "failed" /\ error'.code = RefErrorCode)
    THEN path_context ELSE None

\* the resolution rules in their order, each with whether it applies and what
\* it returns
ResolutionRules(name, context) ==
    LET directory == SubSeq(context, 1, RFindSlash(context)) IN
    << [applies |-> Head(name) \in UrlSchemes, result |-> name],
       [applies |-> name \in local_files,
        result |-> <<"file:">> \o PathnameToUrl(AbsPath(name))],
       [applies |-> context # None /\ context # EmptyStr
                       /\ (directory \o name) \in open_urls,
        result |-> IF context = None THEN None ELSE directory \o name],
       [applies |-> resources_base_url # None /\ resources_base_url # EmptyStr,
        result |-> IF resources_base_url = None THEN None
                   ELSE resources_base_url \o name],
       [applies |-> TRUE, result |-> None] >>

FirstRuleThatApplies(rules) ==
    rules[CHOOSE i \in 1..Len(rules) :
              rules[i].applies /\ \A j \in 1..(i - 1) : ~rules[j].applies]

C22_Step ==
    pc = "resolve" /\ pc' # "resolve" =>
        resource_location' =
            FirstRuleThatApplies(ResolutionRules(PostAliasName, ContextOfCall)).result

\* C22: for a post-alias name the resolver returns the result of the first rule
\* that applies, in the order: the name itself if it starts with a url scheme;
\* the file url of the absolute path if a local file of that name exists; the
\* name joined to the directory of the context url if a context is given and
\* the probe of that url succeeds; base url + name if a base url is given;
\* otherwise not found.  A failed probe falls through to the base url rule.
C22_ResolutionOrder == [][C22_Step]_vars

\* a ref whose context-relative url failed the probe and which was resolved
\* against the base url
C22_Witness ==
    /\ pc = "ref_read"
    /\ path_context # None
    /\ CandidateUrl(PostAliasName, path_context) \notin open_urls
    /\ PostAliasName \notin local_files
    /\ resource_location = resources_base_url \o PostAliasName

\* a ref for which both the context rule and the base url rule apply
C22_WitnessContextFirst ==
    /\ pc = "ref_read"
    /\ resources_base_url # None /\ resources_base_url # EmptyStr
    /\ resource_location = CandidateUrl(PostAliasName, path_context)

\* a name with spaces that is a local file
C22_WitnessLocalFile ==
    /\ pc = "located"
    /\ PostAliasName = <<"my", " ", "a">>
    /\ resource_location = <<"file:", "/", "cwd", "/", "my", "%20", "a">>

C27_Step ==
    pc = "resolve" /\ pc' = "failed" =>
        /\ error'.code \in {DslLocationErrorCode, RefErrorCode}
        /\ \E i \in 1..Len(error'.message_names) :
              error'.message_names[i] = PostAliasName
        /\ error'.code = DslLocationErrorCode => error'.failed_import = PostAliasName

\* C27: when the blueprint location cannot be resolved the compile fails with
\* code 30, and when a ref cannot be located or opened it fails with code 31;
\* in both cases the error carries the logical name that failed to resolve,
\* after alias mapping, for code 30 in its failed_import field and its message.
C27_FailureCarriesName == [][C27_Step]_vars

\* a blueprint location that no rule resolves
C27_Witness ==
    /\ pc = "failed"
    /\ error.code = DslLocationErrorCode
    /\ error.failed_import = None
    /\ PostAliasName # None

C27_StepRef ==
    pc = "resolve" /\ pc' = "failed" /\ error'.code = RefErrorCode =>
        \E i \in 1..Len(error'.message_names) :
            error'.message_names[i] = PostAliasName

\* the part of C27 about refs: the message of code 31 names the ref after
\* alias mapping
C27_RefFailureCarriesName == [][C27_StepRef]_vars

\* a ref that was located and could not be opened
C27_WitnessRef ==
    /\ pc = "failed"
    /\ error.code = RefErrorCode
    /\ Len(error.message_names) = 2
    /\ logical_name \in DOMAIN alias_mapping

-----------------------------------------------------------------------------
(* Claims about the combined document during processing *)

C23_Step ==
    pc # "failed" /\ pc' # "failed" => node_templates' = node_templates

\* C23: the combined document is read-only after merging: processing node
\* templates, relationships and types leaves the document's node_templates
\* unchanged, each relationship's type and target keys included, and the plan
\* shares no mapping with the document.
C23_DocumentReadOnly == [][C23_Step]_vars

\* a plan was produced whose relationship objects are those of the document
\* (complete_relationship = relationship): one of them has lost its target key
\* and holds what post-processing wrote into the plan's relationship
C23_Witness ==
    /\ pc = "done"
    /\ \E i \in 1..Len(processed_nodes) :
          LET document_rels == node_templates[processed_nodes[i].name].relationships
          IN  /\ Len(document_rels) >= 1
              /\ document_rels[1].target = ""
              /\ document_rels[1].target_id # ""
              /\ document_rels[1].type_hierarchy # <<>>

C23_StepTypes ==
    pc \in {"process_nodes", "post_process_relationships"} =>
        /\ node_types' = node_types
        /\ relationships' = relationships
        /\ \A n \in DOMAIN node_templates :
              /\ node_templates'[n].type = node_templates[n].type
              /\ node_templates'[n].interfaces = node_templates[n].interfaces
              /\ Len(node_templates'[n].relationships)
                    = Len(node_templates[n].relationships)

\* the part of C23 that holds: the type declarations of the document, and the
\* type and interfaces of each node template, are not written
C23_TypesReadOnly == [][C23_StepTypes]_vars

\* node templates with a relationship were processed
C23_WitnessTypes ==
    /\ pc = "post_process_relationships"
    /\ \E n \in DOMAIN node_templates : Len(node_templates[n].relationships) >= 1

-----------------------------------------------------------------------------
(* Claims about post-processing *)

PostProcessing ==
    pc \in {"post_process_relationships", "host_ids", "plugins_to_install",
            "deployment_plugins_to_install", "validate"}

C24_Step ==
    PostProcessing /\ pc' = "failed" => error'.type = "DSLParsingLogicException"

\* C24: for every set of processed nodes and every node_types and
\* relationships map that the earlier stages accept, the post-processor ends
\* with a completed node set or a LogicError, also when contained-in
\* relationships among nodes that are not hosts form a cycle and for types
\* that no node uses.
C24_PostProcessingTotal == [][C24_Step]_vars

\* two nodes that are not hosts contain each other, every type is well formed
\* and the host_id climb did not return
C24_Witness ==
    /\ pc = "failed"
    /\ error = RecursionError
    /\ FamilyDescendantsFailures(node_types, HOST_TYPE) = {}
    /\ \E a, b \in DOMAIN node_templates :
          /\ a # b
          /\ node_templates[a].type = "app" /\ node_templates[b].type = "app"
          /\ Len(node_templates[a].relationships) = 1
          /\ Len(node_templates[b].relationships) = 1
          /\ node_templates[a].relationships[1].target_id = b
          /\ node_templates[b].relationships[1].target_id = a

\* a type that no node uses derives from a type that is not declared, and the
\* family-descendant computation ended with a KeyError
C24_WitnessUnusedType ==
    /\ pc = "failed"
    /\ error = KeyError
    /\ "orphan" \in DOMAIN node_types
    /\ \A n \in DOMAIN node_templates : node_templates[n].type # "orphan"

C24_StepWellFormed ==
    /\ PostProcessing
    /\ FamilyDescendantsFailures(node_types, HOST_TYPE) = {}
    /\ \A j \in 1..Len(processed_nodes) :
          ExtractNodeHostId(j, processed_nodes, node_templates,
              BuildFamilyDescendantsSet(node_types, HOST_TYPE),
              BuildFamilyDescendantsSet(relationships, CONTAINED_IN_REL_TYPE),
              {}).kind # "recursion"
    /\ pc' = "failed"
    => error'.type = "DSLParsingLogicException"

\* what holds of post-processing: without a containment cycle among nodes that
\* are not hosts and with every derived_from chain of node_types ending at a
\* declared root, it ends with a completed node set or a LogicError
C24_TotalWhenWellFormed == [][C24_StepWellFormed]_vars

\* a plan of a blueprint in which a node is hosted two levels up
C24_WitnessWellFormed ==
    /\ pc = "done"
    /\ \E j \in 1..Len(processed_nodes) :
          /\ processed_nodes[j].has_host_id
          /\ Len(node_templates[processed_nodes[j].name].relationships) = 1
          /\ processed_nodes[j].host_id
                # node_templates[processed_nodes[j].name].relationships[1].target_id
          /\ processed_nodes[j].host_id # processed_nodes[j].id

-----------------------------------------------------------------------------
(* Claims about registered functions *)

\* the output holds {name: arg} for a registered name
RegisteredCall(value) ==
    value.kind = "dict" /\ value.name \in registered /\ Len(value.args) = 1

IsGetPropertyCall(arg) == arg.kind = "dict" /\ arg.name = "get_property"

IsGetAttributeCall(arg) == arg.kind = "dict" /\ arg.name = "get_attribute"

\* the property or attribute that a get_property or get_attribute names
ResolvedValue(arg) ==
    IF IsGetPropertyCall(arg)
    THEN node_properties[arg.args[1].name][arg.args[2].name].items[1].args[1]
    ELSE runtime_properties[arg.args[2].name]

\* what the registered function returns for a string
UpperCased(text) == [kind |-> "str", name |-> StrUpper(text), args |-> <<>>]

PreparedAsClaimed(o) ==
    LET arg == outputs[o].args[1] IN
    IF arg.kind = "str" THEN outputs'[o] = UpperCased(arg.name)
    ELSE IF IsGetPropertyCall(arg) THEN outputs'[o] = UpperCased(ResolvedValue(arg))
    ELSE outputs'[o] = outputs[o]

EvaluatedAsClaimed(o) ==
    LET arg == outputs[o].args[1] IN
    IsGetAttributeCall(arg) => evaluated_outputs'[o] = UpperCased(ResolvedValue(arg))

C25_Step ==
    /\ pc = "parsed" /\ pc' = "prepared" =>
           \A o \in DOMAIN outputs : RegisteredCall(outputs[o]) => PreparedAsClaimed(o)
    /\ pc = "prepared" /\ pc' = "evaluated" =>
           \A o \in DOMAIN outputs : RegisteredCall(outputs[o]) => EvaluatedAsClaimed(o)

C25_WitnessNotRegistered ==
    /\ pc = "evaluated"
    /\ registered = {}
    /\ outputs["output1"].kind = "dict"
    /\ outputs["output1"].name = "to_upper"
    /\ evaluated_outputs["output1"].name = "to_upper"

-----------------------------------------------------------------------------
(* Claims about the order of the validations *)

\* the steps of _parse that follow _post_process_nodes
AfterUnusedImplementationCheck ==
    pc \in {"finish", "plan_plugins", "plan", "validate_functions"}

\* a workflow of the blueprint cannot be bound to a plugin
WorkflowDefect ==
    \E plugin_names \in Orders(DOMAIN plugins) :
    \E order \in Orders(DOMAIN workflows) :
        ProcessWorkflowsCall(workflows, order, plugins, plugin_names,
                             resource_base, resources).raised

C26_Step ==
    /\ AfterUnusedImplementationCheck => pc' # "failed"
    /\ (/\ pc' = "failed"
        /\ error'.code \in {UnusedTypeImplErrorCode, UnusedRelationshipImplErrorCode})
          => ~WorkflowDefect

\* C26: no other validation error is detected after the check for unused
\* implementations (110/111) has been performed; a blueprint that has both an
\* unused implementation and another defect is reported with the other defect.
C26_UnusedImplementationsLast == [][C26_Step]_vars

\* a blueprint with an unused type implementation and a workflow that no
\* plugin matches: 110 is what the compile reports
C26_Witness ==
    /\ pc = "failed"
    /\ error.code = UnusedTypeImplErrorCode
    /\ WorkflowDefect

\* both pools were empty at the check and the workflow binding failed after it
C26_WitnessAfter ==
    /\ pc = "failed"
    /\ error.code = WorkflowErrorCode
    /\ DOMAIN type_impls = {} /\ DOMAIN relationship_impls = {}
    /\ Len(processed_nodes) = 3

C26_StepBefore ==
    /\ pc' = "failed"
    /\ error'.code \in {UnusedTypeImplErrorCode, UnusedRelationshipImplErrorCode}
    => pc = "validate"

\* what holds of the order: 110 and 111 are raised by the step that ends
\* _post_process_nodes, before the workflows are processed
C26_RaisedBeforeWorkflows == [][C26_StepBefore]_vars

\* the step that ends _post_process_nodes found the relationship pool not empty
C26_WitnessBefore ==
    /\ pc = "failed"
    /\ error.code = UnusedRelationshipImplErrorCode
    /\ processed_workflows = EmptyDict
    /\ DOMAIN workflows # {}

-----------------------------------------------------------------------------
(* Claims about the iteration orders of the binding *)

\* what operation processing computes for the node examined when the plugin
\* names are iterated as plugin_names and the interfaces and their operations
\* as items
BoundInOrder(plugin_names, items) ==
    ProcessContextOperations(items, plugins, plugin_names, EmptyDict,
                             NodeOperationErrorCode, resource_base, resources)

\* the orders in which the interfaces of the node examined and their operations
\* can be iterated
OrdersOfNodeExamined ==
    NodeInterfaceItems(NodeExamined, node_templates[NodeExamined], node_types,
                       type_impls)

C28_Step ==
    (pc = "process_nodes" /\ pc' # "failed") =>
        \A plugin_names \in Orders(DOMAIN plugins) :
        \A items \in OrdersOfNodeExamined :
            ~BoundInOrder(plugin_names, items).raised =>
                /\ BoundInOrder(plugin_names, items).operations
                      = LastProcessedNode'.operations
                /\ BoundInOrder(plugin_names, items).node_plugins
                      = LastProcessedNode'.plugins

\* C28: for a fixed set of declared plugins and a fixed interfaces mapping that
\* binds without error, the operations map and the plugins map of the node are
\* the same for every order in which plugin names, interfaces and operations
\* are iterated.
C28_OrderIndependence == [][C28_Step]_vars

\* interface i owns x and interface j an operation called i.x: iterated i
\* first, the map of the processed node lacks i.x, which it holds when j is
\* iterated first
C28_Witness ==
    /\ Len(processed_nodes) >= 1
    /\ DOMAIN node_templates["n1"].interfaces = {<<"i">>, <<"j">>}
    /\ <<"x">> \in DOMAIN node_templates["n1"].interfaces[<<"i">>]
    /\ <<"i", ".", "x">> \in DOMAIN node_templates["n1"].interfaces[<<"j">>]
    /\ <<"i", ".", "x">> \notin DOMAIN processed_nodes[1].operations

C28_StepPlainNames ==
    (/\ pc = "process_nodes" /\ pc' # "failed"
     /\ NoLongNameAsName(node_templates[NodeExamined].interfaces)) =>
        \A plugin_names \in Orders(DOMAIN plugins) :
        \A items \in OrdersOfNodeExamined :
            ~BoundInOrder(plugin_names, items).raised =>
                /\ BoundInOrder(plugin_names, items).operations
                      = LastProcessedNode'.operations
                /\ BoundInOrder(plugin_names, items).node_plugins
                      = LastProcessedNode'.plugins

\* the part of C28 that holds: when no operation is called as the long name of
\* an operation, every order of plugin names, interfaces and operations gives
\* the same operations map and the same plugins map
C28_OrderIndependenceOfPlainNames == [][C28_StepPlainNames]_vars

\* two interfaces share x, j's operations are bound to the plugin of the longer
\* name, and both plugins are in the node's map
C28_WitnessPlainNames ==
    /\ Len(processed_nodes) >= 1
    /\ DOMAIN node_templates["n1"].interfaces = {<<"i">>, <<"j">>}
    /\ NoLongNameAsName(node_templates["n1"].interfaces)
    /\ <<"x">> \in DOMAIN node_templates["n1"].interfaces[<<"i">>]
    /\ <<"x">> \in DOMAIN node_templates["n1"].interfaces[<<"j">>]
    /\ <<"x">> \notin DOMAIN processed_nodes[1].operations
    /\ processed_nodes[1].operations[<<"j", ".", "x">>].plugin = <<"hp", ".", "x">>
    /\ DOMAIN processed_nodes[1].plugins = {<<"hp">>, <<"hp", ".", "x">>}

-----------------------------------------------------------------------------
(* Claims about what the circular check rejects, checked under SpecFunctions *)

\* the value of a property with every function instance in its raw form
RawValue(value) ==
    [is_container |-> value.is_container,
     items |-> [i \in 1..Len(value.items) |->
                   IF value.items[i].kind = "Function" THEN value.items[i].raw
                   ELSE value.items[i]]]

C29_Step ==
    (pc = "validate_functions" /\ pc' # "validate_functions") =>
        (pc' = "failed" <=> CyclicChain(node_properties))

\* C29: the function validator raises the circular get_property error if and
\* only if some chain of get_property references comes back to a property that
\* is on the chain; a plan whose reference graph is acyclic is accepted, also
\* when one value holds two get_property references to the same property or
\* two branches reach the same property.
C29_OnlyGenuineCycles == [][C29_Step]_vars

\* n2.x refers to n1.x, whose value holds two references to n1.y, a string:
\* nothing is cyclic and the validator reports n1.x -> n1.y -> n1.y
C29_Witness ==
    /\ pc = "failed"
    /\ error.message = <<"Circular get_property function call detected: ",
                         "n1", ".", "x", " -> ", "n1", ".", "y", " -> ",
                         "n1", ".", "y">>
    /\ RawValue(node_properties["n2"]["x"]) = Scalar(GetPropertyOf("n1", "x"))
    /\ RawValue(node_properties["n1"]["x"])
          = ContainerOf(<<GetPropertyOf("n1", "y"), GetPropertyOf("n1", "y")>>)
    /\ node_properties["n1"]["y"] = Scalar(Str("v"))

C29_StepSingleReferences ==
    (/\ pc = "validate_functions" /\ pc' # "validate_functions"
     /\ \A n \in DOMAIN node_properties : \A p \in DOMAIN node_properties[n] :
           Cardinality({i \in 1..Len(node_properties[n][p].items) :
                           node_properties[n][p].items[i].kind
                              = GET_PROPERTY_FUNCTION}) <= 1) =>
        (pc' = "failed" <=> CyclicChain(node_properties))

\* the part of C29 that holds: in plans whose values hold at most one
\* get_property each, the validator fails if and only if a chain is cyclic
C29_OnlyCyclesOfSingleReferences == [][C29_StepSingleReferences]_vars

\* a chain of single references that ends in a string was accepted
C29_WitnessSingleReferences ==
    /\ pc = "done"
    /\ node_properties["n1"]["x"] = Scalar(GetPropertyOf("n1", "y"))
    /\ node_properties["n1"]["y"] = Scalar(GetPropertyOf("n2", "x"))
    /\ node_properties["n2"]["x"] = Scalar(Str("v"))

-----------------------------------------------------------------------------
(* Claims about the plugins that relationship operations bring *)

\* the plugin that an operation mapping 'plugin.task' names
PluginNamedBy(operation_content_) == <<Head(operation_content_.mapping)>>

\* the operations of interfaces are in operations under their long names, bound
\* to the plugin their mapping names, and that plugin is in node_plugins
BoundAndAttributed(interfaces, operations, node_plugins) ==
    \A i \in DOMAIN interfaces : \A o \in DOMAIN interfaces[i] :
        /\ LongName(i, o) \in DOMAIN operations
        /\ operations[LongName(i, o)].plugin = PluginNamedBy(interfaces[i][o])
        /\ PluginNamedBy(interfaces[i][o]) \in DOMAIN node_plugins

RelationshipPluginsAttributed ==
    \A j \in 1..Len(processed_nodes) :
    \A k \in 1..Len(RelationshipsOfNode(processed_nodes[j])) :
        LET rel == RelationshipsOfNode(processed_nodes[j])[k]
        IN  /\ BoundAndAttributed(rel.source_interfaces, rel.source_operations,
                                  processed_nodes[j].plugins)
            /\ BoundAndAttributed(rel.target_interfaces, rel.target_operations,
                                  NodeWithId(rel.target_id).plugins)

\* the plugins that the relationships of the blueprint bring to the node: those
\* of the source operations of its own relationships and of the target
\* operations of the relationships that target it
BroughtByRelationships(node) ==
    UNION {{PluginNamedBy(rel.source_interfaces[i][o]) :
               i \in DOMAIN rel.source_interfaces, o \in {<<"establish">>}} :
           rel \in {RelationshipsOfNode(node)[k] :
                       k \in 1..Len(RelationshipsOfNode(node))}}
    \cup
    UNION {UNION {{PluginNamedBy(rel.target_interfaces[i][o]) :
                      i \in DOMAIN rel.target_interfaces, o \in {<<"establish">>}} :
                  rel \in {RelationshipsOfNode(processed_nodes[j])[k] :
                              k \in {l \in 1..Len(RelationshipsOfNode(processed_nodes[j])) :
                                        RelationshipsOfNode(processed_nodes[j])[l].target_id
                                            = node.id}}} :
           j \in 1..Len(processed_nodes)}

\* plugins_to_install, deployment_plugins_to_install and the host-agent check
\* took the plugins brought by relationships into account
AggregatesIncludeRelationshipPlugins ==
    \A j \in 1..Len(processed_nodes) :
    \A plugin_name \in BroughtByRelationships(processed_nodes[j]) :
        LET node == processed_nodes[j] IN
        IF plugins[plugin_name].executor = CENTRAL_DEPLOYMENT_AGENT
        THEN plugin_name \in PluginNamesIn(node.deployment_plugins_to_install)
        ELSE /\ node.has_host_id
             /\ plugin_name \in PluginNamesIn(NodeWithId(node.host_id).plugins_to_install)

\* C30: a plugin bound by an operation of a relationship's source_interfaces
\* is recorded in the source node's plugins and one bound by its
\* target_interfaces in the target node's plugins, for the relationships of
\* every node before plugins_to_install, deployment_plugins_to_install or the
\* host-agent check are computed, so that those results include the plugins
\* that relationships bring.
C30_RelationshipPluginsAttributed ==
    /\ pc \in {"host_ids", "plugins_to_install", "deployment_plugins_to_install",
               "validate"} => RelationshipPluginsAttributed
    /\ pc \in {"finish", "plan_plugins", "plan", "validate_functions", "done"}
          => RelationshipPluginsAttributed /\ AggregatesIncludeRelationshipPlugins

\* a plan of nodes without operations of their own: n2 is contained in the host
\* n1 by a relationship whose source operation runs on hp, and is connected to
\* n3 by one whose target operation runs on cp
C30_Witness ==
    /\ pc = "done"
    /\ Len(node_templates["n2"].relationships) = 2
    /\ node_templates["n2"].relationships[1].target_id = "n1"
    /\ node_templates["n2"].relationships[2].target_id = "n3"
    /\ DOMAIN processed_nodes[2].plugins = {<<"hp">>}
    /\ DOMAIN processed_nodes[3].plugins = {<<"cp">>}
    /\ PluginNamesIn(processed_nodes[1].plugins_to_install) = {<<"hp">>}
    /\ PluginNamesIn(processed_nodes[3].deployment_plugins_to_install) = {<<"cp">>}

\* a relationship of n3 brought a host-agent plugin to n2, which no host
\* contains, and the check failed with 24
C30_WitnessCheck ==
    /\ pc = "failed"
    /\ error = LogicError(HostAgentWithoutHostErrorCode)
    /\ \E k \in 1..Len(node_templates["n3"].relationships) :
          /\ node_templates["n3"].relationships[k].target_id = "n2"
          /\ DOMAIN node_templates["n3"].relationships[k].target_operations # {}
    /\ DOMAIN processed_nodes[2].plugins = {<<"hp">>}
    /\ ~processed_nodes[2].has_host_id

=============================================================================
